---- MODULE Spec2Model ----
(***************************************************************************)
(* MasterStat dashboard (src/dashboard.py): the history store, the CSV     *)
(* log, gap detection, backfill from the event history, the poller and     *)
(* the status cache.                                                       *)
(*                                                                         *)
(* Time is counted in ticks, TPS ticks to the second.  A tick stands for   *)
(* the resolution of datetime/timedelta (one microsecond in Python): a     *)
(* timestamp written to the CSV log is truncated to whole seconds, a       *)
(* timedelta divided by two is rounded half-to-even to a whole tick.       *)
(* Local time and epoch time are taken to differ by a fixed offset (no     *)
(* DST change inside the modelled period), so both are one number here.    *)
(*                                                                         *)
(* Python values are modelled by strings: a number by its numeral, the     *)
(* value None by the string None below, so that writing a value into the   *)
(* CSV log (str.format) and reading it back (float) are conversions that   *)
(* can fail, not identities.                                               *)
(***************************************************************************)
EXTENDS Integers, Sequences, FiniteSets, TLC

VARIABLES
    clock,            \* time.time() / datetime.now(), in ticks
    csv,              \* CSV_LOG_FILE: [exists, lines]
    min_gap_seconds,  \* argument of the running find_csv_gaps call
    gaps,             \* list returned by find_csv_gaps
    pc,               \* position of the main thread
    history,          \* _history
    histfile,         \* HISTORY_FILE: [exists, valid, data]
    gi,               \* backfill_from_history: index of the gap of the for loop
    total_points,     \* backfill_from_history: total_points
    chunk_start,      \* backfill_gap: chunk_start
    state,            \* backfill_gap: the replay state
    points,           \* backfill_gap: points
    events,           \* backfill_gap: what the last fetch_history_chunk returned
    queries,          \* every fetch_history_chunk call made: [gap, after, before]
    ppc,              \* position of the poller thread
    status,           \* status of each thread's last fetch_status
    point,            \* record_data_point: point, per thread
    cache,            \* _cache["status"]: [data, ts]
    wake,             \* when the poller's time.sleep(POLL_INTERVAL) ends
    nticks,           \* how often the clock has advanced
    restarts,         \* how often the process has been started again
    rnow,             \* get_status_cached: now
    fetches,          \* number of fetch_status calls made by get_status_cached
    prev,             \* the last get_status_cached call that fetched: [at, polled]
    lock,             \* _history_lock: the thread that holds it, or free
    snap,             \* what the running /api/history request got from get_history
    api               \* the running api_get call

passVars == <<gi, total_points, chunk_start, state, points, events, queries>>
storeVars == <<history, histfile>>
runVars == <<ppc, status, point, cache, wake, restarts>>
reqVars == <<rnow, fetches, prev>>
extVars == <<lock, snap, api>>
vars == <<clock, csv, min_gap_seconds, gaps, pc, history, histfile,
          gi, total_points, chunk_start, state, points, events, queries,
          ppc, status, point, cache, wake, nticks, restarts, rnow, fetches, prev,
          lock, snap, api>>

----------------------------------------------------------------------------
(* Bounds of the model *)

TPS == 2
MaxLines == 3
MaxLog == 2
MaxTicks == 3
MaxRestarts == 1
MaxCalls == 3

(* Program constants *)

HISTORY_MAX_AGE == 7 * 24 * 3600
POLL_INTERVAL == 60
BACKFILL_MIN_GAP == 120
DEFAULT_MIN_GAP == 300
CHUNK_HOURS == 1
MAX_GAP_HOURS == 168
CACHE_TTL == 30

Sec(n) == n * TPS
Hours(n) == Sec(3600 * n)

----------------------------------------------------------------------------
(* Python values *)

None == "<None>"
Numerals == {"55", "68", "70"}

\* "{}".format(v): None is written as the text None, a number as its numeral,
\* a string as itself.
str_format(v) == IF v = None THEN "None" ELSE v

\* float(s) raises ValueError unless s is a numeral.
float_raises(s) == s \notin Numerals
float(s) == s

\* x or y for strings: the empty string is falsy.
Or(x, y) == IF x = "" THEN y ELSE x

\* Optional values: <<>> is None, <<v>> is v.
Some(v) == <<v>>
Nothing == <<>>

\* A call that can fail: what it returns (val) or the exception it raises (exc).
Returned(v) == [exc |-> "", val |-> Some(v)]
Raised(e) == [exc |-> e, val |-> Nothing]

\* Variant: except urllib.error.HTTPError
except_HTTPError(e) == e = "HTTPError"

\* except Exception: every exception but those that end the interpreter
except_Exception(e) == e \notin {"KeyboardInterrupt", "SystemExit"}

----------------------------------------------------------------------------
(* A sample: the dict built by record_data_point and by backfill_gap.      *)

State(temp, outdoorTemp, heatingSetpoint, coolingSetpoint, operatingState, mode, outletSwitch) ==
    [temp |-> temp, outdoorTemp |-> outdoorTemp,
     heatingSetpoint |-> heatingSetpoint, coolingSetpoint |-> coolingSetpoint,
     operatingState |-> operatingState, mode |-> mode, outletSwitch |-> outletSwitch]

Point(ts, s) ==
    [ts |-> ts, temp |-> s.temp, outdoorTemp |-> s.outdoorTemp,
     heatingSetpoint |-> s.heatingSetpoint, coolingSetpoint |-> s.coolingSetpoint,
     operatingState |-> s.operatingState, mode |-> s.mode, outletSwitch |-> s.outletSwitch]

DefaultState == State(None, None, None, None, "idle", "heat", "off")

----------------------------------------------------------------------------
(* The CSV log.  A line is the header, a blank line, a line with fewer     *)
(* than 8 comma-separated fields, a line whose first field is not a        *)
(* timestamp, or a row: a timestamp in whole seconds and the 7 texts that  *)
(* follow it.                                                              *)

HeaderLine == [kind |-> "header", ts |-> 0, f |-> <<>>]
BlankLine == [kind |-> "blank", ts |-> 0, f |-> <<>>]
ShortLine == [kind |-> "short", ts |-> 0, f |-> <<>>]
BadTsLine == [kind |-> "badts", ts |-> 0, f |-> <<>>]
Row(ts, f) == [kind |-> "row", ts |-> ts, f |-> f]

\* strftime("%Y-%m-%d %H:%M:%S") of fromtimestamp(ts): the fraction of a second is dropped.
strftime(ts) == ts \div TPS
\* strptime(text, "%Y-%m-%d %H:%M:%S"): a datetime on a whole second.
strptime(text) == Sec(text)

csv_row(pt) ==
    Row(strftime(pt.ts),
        << str_format(pt.temp), str_format(pt.outdoorTemp),
           str_format(pt.heatingSetpoint), str_format(pt.coolingSetpoint),
           str_format(pt.operatingState), str_format(pt.mode),
           str_format(pt.outletSwitch) >>)

init_csv(file) ==
    IF file.exists THEN file ELSE [exists |-> TRUE, lines |-> <<HeaderLine>>]

\* A failed open or write is swallowed: the row is not written.
append_csv(file, pt, ok) ==
    IF ok THEN [exists |-> TRUE, lines |-> Append(file.lines, csv_row(pt))] ELSE file

\* for point in points: append_csv(point)
RECURSIVE append_csv_all(_, _, _)
append_csv_all(file, pts, oks) ==
    IF pts = <<>> THEN file
    ELSE append_csv_all(append_csv(file, Head(pts), Head(oks)), Tail(pts), Tail(oks))

----------------------------------------------------------------------------
(* find_csv_gaps *)

Gap(start, end, seed) == [start |-> start, end |-> end, seed |-> seed]

ScanInit == [gaps |-> <<>>, prev_ts |-> Nothing, prev_state |-> Nothing, raised |-> FALSE]

\* The state dict of a row; float() of the four numeric texts.
row_state(f) ==
    State(IF f[1] # "" THEN float(f[1]) ELSE None,
          IF f[2] # "" THEN float(f[2]) ELSE None,
          IF f[3] # "" THEN float(f[3]) ELSE None,
          IF f[4] # "" THEN float(f[4]) ELSE None,
          Or(f[5], "idle"), Or(f[6], "heat"), Or(f[7], "off"))

row_raises(f) == \E i \in 1..4 : f[i] # "" /\ float_raises(f[i])

\* One iteration of the for loop over the file's lines.  A ValueError from
\* float() is not caught inside the loop: it leaves the loop (raised).
scan_line(acc, line, min) ==
    IF acc.raised THEN acc
    ELSE IF line.kind \in {"blank", "header"} THEN acc
    ELSE IF line.kind = "short" THEN acc
    ELSE IF line.kind = "badts" THEN acc
    ELSE IF row_raises(line.f) THEN [acc EXCEPT !.raised = TRUE]
    ELSE LET ts == strptime(line.ts)
             st == row_state(line.f)
         IN [gaps |-> IF acc.prev_ts # Nothing /\ ts - acc.prev_ts[1] > Sec(min)
                      THEN Append(acc.gaps, Gap(acc.prev_ts[1], ts, acc.prev_state))
                      ELSE acc.gaps,
             prev_ts |-> Some(ts), prev_state |-> Some(st), raised |-> FALSE]

RECURSIVE scan_lines(_, _, _, _)
scan_lines(acc, lines, i, min) ==
    IF i > Len(lines) THEN acc
    ELSE scan_lines(scan_line(acc, lines[i], min), lines, i + 1, min)

find_csv_gaps(file, min, now) ==
    IF ~file.exists THEN <<>>
    ELSE LET acc == scan_lines(ScanInit, file.lines, 1, min)
         IN IF acc.prev_ts # Nothing /\ now - acc.prev_ts[1] > Sec(min)
            THEN Append(acc.gaps, Gap(acc.prev_ts[1], now, acc.prev_state))
            ELSE acc.gaps

----------------------------------------------------------------------------
(* Sorting: list.sort(key=...) is stable.                                  *)

\* pairs are <<key, item>>; p goes after every pair whose key is not greater.
insert_pair(sorted, p) ==
    LET n == Cardinality({i \in 1..Len(sorted) : sorted[i][1] <= p[1]})
    IN SubSeq(sorted, 1, n) \o <<p>> \o SubSeq(sorted, n + 1, Len(sorted))

RECURSIVE sort_pairs(_)
sort_pairs(ps) ==
    IF ps = <<>> THEN <<>>
    ELSE insert_pair(sort_pairs(SubSeq(ps, 1, Len(ps) - 1)), ps[Len(ps)])

unpair(ps) == [i \in 1..Len(ps) |-> ps[i][2]]

\* Variant: the events are applied as they arrived.
sort_events_arrival(evs) == evs

\* events.sort(key=lambda e: e.get("epoch", 0))
sort_events(evs) == unpair(sort_pairs([i \in 1..Len(evs) |-> <<evs[i].epoch, evs[i]>>]))

\* _history.sort(key=lambda h: h.get("ts", 0))
sort_history(h) == unpair(sort_pairs([i \in 1..Len(h) |-> <<h[i].ts, h[i]>>]))

----------------------------------------------------------------------------
(* The history store *)

\* Variant: nothing is ever pruned.
prune_history_off(h, now) == h

\* Variant: a call removes the oldest sample only, when it is too old.
prune_history_oldest(h, now) ==
    IF h # <<>> /\ h[1].ts <= now - Sec(HISTORY_MAX_AGE) THEN Tail(h) ELSE h

\* prune_history at time now
prune_history(h, now) ==
    LET cutoff == now - Sec(HISTORY_MAX_AGE)
    IN SelectSeq(h, LAMBDA p : p.ts > cutoff)

\* Variant: the file is opened for appending and gets the newest sample only.
save_history_appending(file, h, outcome) ==
    [exists |-> TRUE, valid |-> TRUE,
     data |-> IF h = <<>> THEN file.data ELSE Append(file.data, h[Len(h)])]

\* save_history: json.dump of _history into HISTORY_FILE; a failure is swallowed.
\* The outcomes: "written"; "not opened" (open(..., "w") failed, the file is as it
\* was); "cut" (the file was opened, so emptied, and the write failed).
save_history(file, h, outcome) ==
    CASE outcome = "written" -> [exists |-> TRUE, valid |-> TRUE, data |-> h]
      [] outcome = "not opened" -> file
      [] outcome = "cut" -> [exists |-> TRUE, valid |-> FALSE, data |-> <<>>]

----------------------------------------------------------------------------
(* backfill_gap *)

attr_map ==
    [temperature |-> "temp", thermostatOperatingState |-> "operatingState",
     thermostatMode |-> "mode", outdoorTemperature |-> "outdoorTemp",
     heatingSetpoint |-> "heatingSetpoint", coolingSetpoint |-> "coolingSetpoint"]

Event(attribute, value, epoch) == [attribute |-> attribute, value |-> value, epoch |-> epoch]

apply_event(st, e) ==
    IF e.attribute \in DOMAIN attr_map
    THEN [st EXCEPT ![attr_map[e.attribute]] = e.value]
    ELSE st

RECURSIVE apply_events(_, _)
apply_events(st, evs) ==
    IF evs = <<>> THEN st ELSE apply_events(apply_event(st, Head(evs)), Tail(evs))

derive_switch(st) ==
    IF st.operatingState = "heating" THEN [st EXCEPT !.outletSwitch = "on"]
    ELSE IF st.operatingState \in {"idle", "cooling"} THEN [st EXCEPT !.outletSwitch = "off"]
    ELSE st

\* A run of the CLI for one window: it gave the events out, or the CLI is not
\* installed, or it ended with a non-zero exit code, or it did not end in time,
\* or what it wrote is not JSON.
CliRun(kind, out) == [kind |-> kind, out |-> out]
Ok(evs) == CliRun("ok", evs)
ChunkFailures == {"no cli", "exit", "timeout", "bad json"}

\* what subprocess.run and json.loads do with a run
run_cli(run) ==
    CASE run.kind = "timeout" -> Raised("TimeoutExpired")
      [] run.kind = "exit" -> Returned(<<>>)
      [] run.kind = "bad json" -> Raised("JSONDecodeError")
      [] OTHER -> Returned(run.out)

\* Variant: the CLI is run outside a try statement.
fetch_history_chunk_unguarded(run) ==
    IF run.kind = "no cli" THEN Returned(<<>>) ELSE run_cli(run)

\* fetch_history_chunk: [] without the CLI, [] on a non-zero exit code, []
\* when an exception is caught
fetch_history_chunk(run) ==
    IF run.kind = "no cli" THEN Returned(<<>>)
    ELSE IF run_cli(run).exc # "" /\ except_Exception(run_cli(run).exc) THEN Returned(<<>>)
    ELSE run_cli(run)

\* Variant: the switch is derived after a window without events too.
replay_window_always(st, evs) == derive_switch(apply_events(st, sort_events(evs)))

\* The body of "if events:" for one window
replay_window(st, evs) ==
    IF evs # <<>> THEN derive_switch(apply_events(st, sort_events(evs))) ELSE st

\* timedelta / 2: rounded to a whole tick, half to even
half(d) ==
    IF d % 2 = 0 THEN d \div 2
    ELSE IF (d \div 2) % 2 = 0 THEN d \div 2 ELSE d \div 2 + 1

Min(a, b) == IF a < b THEN a ELSE b

\* Variant: the last window is not cut at the end of the gap.
window_end_whole(cs, gap_end) == cs + Hours(CHUNK_HOURS)
\* chunk_end = min(chunk_start + timedelta(hours=1), gap_end)
window_end(cs, gap_end) == Min(cs + Hours(CHUNK_HOURS), gap_end)
\* Variant: the sample is stamped with the end of its window.
window_mid_end(cs, ce) == ce
window_mid(cs, ce) == cs + half(ce - cs)

\* state = seed_state or {...}
initial_state(seed) == IF seed = Nothing THEN DefaultState ELSE seed[1]

\* chunk_start = gap_start + timedelta(seconds=1)
first_chunk_start(gap_start) == gap_start + Sec(1)

\* Variant: every window gives a sample.
window_points_always(pts, st, cs, ce) == Append(pts, Point(window_mid(cs, ce), st))

\* points after one window
window_points(pts, st, cs, ce) ==
    IF st.temp # None THEN Append(pts, Point(window_mid(cs, ce), st)) ELSE pts

\* Variant: the age limit is taken in days.
too_old_days(gap) == gap.end - gap.start > Hours(MAX_GAP_HOURS * 24)
\* gap_hours > 168
too_old(gap) == gap.end - gap.start > Hours(MAX_GAP_HOURS)

----------------------------------------------------------------------------
(* Specification SpecGaps: find_csv_gaps on every log of at most MaxLines  *)
(* lines after the header.                                                 *)

RowTimes == {0, 60, 300, 421}
RowFields ==
    { <<"70", "55", "68", "", "idle", "heat", "off">>,
      <<"", "", "", "", "heating", "", "">>,
      <<"70", "None", "68", "None", "idle", "heat", "unknown">> }
LineOptions ==
    {BlankLine, ShortLine, BadTsLine} \cup {Row(t, f) : t \in RowTimes, f \in RowFields}
NowOptions == {Sec(421) + 1, Sec(541), Sec(541) + 1, Sec(600), Sec(721) + 1}
MinGapOptions == {BACKFILL_MIN_GAP, DEFAULT_MIN_GAP}

NoHistFile == [exists |-> FALSE, valid |-> FALSE, data |-> <<>>]

Threads == {"main", "poller"}

\* a key a dict does not hold
Absent == "<absent>"

NoStatus ==
    [error |-> FALSE, temperature |-> Absent, primaryTemp |-> Absent, outdoorTemp |-> Absent,
     heatingSetpoint |-> Absent, coolingSetpoint |-> Absent, operatingState |-> Absent,
     mode |-> Absent, outletSwitch |-> Absent]
NoPoint == Point(0, DefaultState)

\* _cache = {"status": {"data": None, "ts": 0}}
EmptyCache == [data |-> Nothing, ts |-> 0]

\* the state of a process that has not started its threads
NotRunning ==
    /\ ppc = "off"
    /\ status = [t \in Threads |-> NoStatus]
    /\ point = [t \in Threads |-> NoPoint]
    /\ cache = EmptyCache
    /\ wake = 0
    /\ rnow = 0
    /\ fetches = 0
    /\ prev = Nothing

\* no api_get call is running
ApiIdle ==
    [at |-> "idle", path |-> "", use_cli |-> FALSE, token |-> "",
     attempt |-> 0, sent |-> <<>>, refreshes |-> 0, calls |-> 0]

ExtIdle ==
    /\ lock = "free"
    /\ snap = Nothing
    /\ api = ApiIdle

PassIdle ==
    /\ gi = 0
    /\ total_points = 0
    /\ chunk_start = 0
    /\ state = DefaultState
    /\ points = <<>>
    /\ events = <<>>
    /\ queries = <<>>

GInit ==
    /\ clock = 0
    /\ csv = [exists |-> TRUE, lines |-> <<HeaderLine>>]
    /\ min_gap_seconds = 0
    /\ gaps = <<>>
    /\ pc = "edit"
    /\ history = <<>>
    /\ histfile = NoHistFile
    /\ PassIdle
    /\ NotRunning
    /\ nticks = 0
    /\ restarts = 0
    /\ ExtIdle

GWrite ==
    /\ pc = "edit"
    /\ Len(csv.lines) < MaxLines + 1
    /\ \E line \in LineOptions : csv' = [csv EXCEPT !.lines = Append(@, line)]
    /\ UNCHANGED <<clock, min_gap_seconds, gaps, pc, storeVars, passVars>>
    /\ UNCHANGED <<runVars, nticks, reqVars>>
    /\ UNCHANGED extVars

GScan ==
    /\ pc = "edit"
    /\ \E min \in MinGapOptions, now \in NowOptions :
          /\ min_gap_seconds' = min
          /\ clock' = now
          /\ gaps' = find_csv_gaps(csv, min, now)
    /\ pc' = "scanned"
    /\ UNCHANGED <<csv, storeVars, passVars, runVars, nticks, reqVars>>
    /\ UNCHANGED extVars

GNext == GWrite \/ GScan

SpecGaps == GInit /\ [][GNext]_vars

----------------------------------------------------------------------------
(* backfill_from_history, run by the main thread.  pc = "gap" is the head  *)
(* of the for loop over gaps, pc = "window" the head of backfill_gap's     *)
(* while loop.  Responses is what fetch_history_chunk may return for a     *)
(* window, IoOutcomes whether a write to the CSV log succeeds,             *)
(* SaveOutcomes what save_history does to the snapshot file.               *)

\* if gap_hours > 168: continue
BackfillSkipGap ==
    /\ pc = "gap"
    /\ gi <= Len(gaps)
    /\ too_old(gaps[gi])
    /\ gi' = gi + 1
    /\ UNCHANGED <<clock, csv, min_gap_seconds, gaps, pc, storeVars,
                   total_points, chunk_start, state, points, events, queries>>
    /\ UNCHANGED <<runVars, nticks, reqVars>>
    /\ UNCHANGED extVars

\* points = backfill_gap(gap_start, gap_end, seed_state): up to the while loop
BackfillEnterGap ==
    /\ pc = "gap"
    /\ gi <= Len(gaps)
    /\ ~too_old(gaps[gi])
    /\ state' = initial_state(gaps[gi].seed)
    /\ chunk_start' = first_chunk_start(gaps[gi].start)
    /\ points' = <<>>
    /\ events' = <<>>
    /\ pc' = "window"
    /\ UNCHANGED <<clock, csv, min_gap_seconds, gaps, storeVars, gi, total_points, queries>>
    /\ UNCHANGED <<runVars, nticks, reqVars>>
    /\ UNCHANGED extVars

\* one iteration of "while chunk_start < gap_end".  An exception that leaves
\* fetch_history_chunk leaves backfill_gap, backfill_from_history and main.
BackfillWindow(Runs) ==
    /\ pc = "window"
    /\ chunk_start < gaps[gi].end
    /\ \E run \in Runs :
          LET chunk_end == window_end(chunk_start, gaps[gi].end)
              call == fetch_history_chunk(run)
              resp == IF call.exc = "" THEN call.val[1] ELSE <<>>
              st == replay_window(state, resp)
          IN /\ queries' = Append(queries, [gap |-> gi, after |-> strftime(chunk_start),
                                            before |-> strftime(chunk_end),
                                            run |-> run.kind])
             /\ IF call.exc # ""
                THEN /\ pc' = "crashed"
                     /\ UNCHANGED <<events, state, points, chunk_start>>
                ELSE /\ events' = resp
                     /\ state' = st
                     /\ points' = window_points(points, st, chunk_start, chunk_end)
                     /\ chunk_start' = chunk_end
                     /\ pc' = pc
    /\ UNCHANGED <<clock, csv, min_gap_seconds, gaps, storeVars, gi, total_points>>
    /\ UNCHANGED <<runVars, nticks, reqVars>>
    /\ UNCHANGED extVars

\* backfill_gap returns; "if points:" appends the rows and extends _history
BackfillStore(IoOutcomes) ==
    /\ pc = "window"
    /\ chunk_start >= gaps[gi].end
    /\ \E oks \in [1..Len(points) -> IoOutcomes] :
          csv' = append_csv_all(csv, points, oks)
    /\ history' = history \o points
    /\ total_points' = total_points + Len(points)
    /\ points' = <<>>
    /\ gi' = gi + 1
    /\ IF points # <<>>
       THEN lock = "free" /\ lock' = "main" /\ pc' = "store_unlock"
       ELSE pc' = "gap" /\ UNCHANGED lock
    /\ UNCHANGED <<clock, min_gap_seconds, gaps, histfile, chunk_start, state, events, queries>>
    /\ UNCHANGED <<runVars, nticks, reqVars>>
    /\ UNCHANGED <<snap, api>>

\* after the for loop: "if total_points:" sort, prune, save; return
BackfillMerge(SaveOutcomes) ==
    /\ pc = "gap"
    /\ gi > Len(gaps)
    /\ IF total_points > 0
       THEN /\ lock = "free"
            /\ lock' = "main"
            /\ history' = prune_history(sort_history(history), clock)
            /\ \E out \in SaveOutcomes : histfile' = save_history(histfile, history', out)
            /\ pc' = "merge_unlock"
       ELSE /\ pc' = "start_poller"
            /\ UNCHANGED <<history, histfile, lock>>
    /\ UNCHANGED <<clock, csv, min_gap_seconds, gaps, passVars>>
    /\ UNCHANGED <<runVars, nticks, reqVars>>
    /\ UNCHANGED <<snap, api>>

\* Variant: the with block is left with the lock held.
unlocked_never(t) == t

\* _history_lock after the with block of thread t
unlocked(t) == "free"

\* where the main thread is after a with _history_lock block of
\* backfill_from_history; an exception raised in the merge leaves main
after_backfill_unlock ==
    [store_unlock |-> "gap", merge_unlock |-> "start_poller", merge_raised |-> "crashed"]

\* the end of the two with _history_lock blocks of backfill_from_history
BackfillUnlock ==
    /\ pc \in DOMAIN after_backfill_unlock
    /\ lock = "main"
    /\ lock' = unlocked("main")
    /\ pc' = after_backfill_unlock[pc]
    /\ UNCHANGED <<clock, csv, min_gap_seconds, gaps, storeVars, passVars>>
    /\ UNCHANGED <<runVars, nticks, reqVars, snap, api>>

----------------------------------------------------------------------------
(* Specification SpecFill: backfill_from_history on lists of gaps, for     *)
(* every answer of the event history to every window.                      *)

MaxGaps == 2
MaxWindows == 3

SeedWarm == Some(State("70", "55", "68", None, "idle", "heat", "unknown"))
SeedCold == Some(State(None, None, None, None, "heating", "heat", "off"))
SeedFan == Some(State("68", None, None, None, "fan only", "auto", "on"))

GapOptions ==
    { Gap(0, Sec(1), SeedWarm),
      Gap(0, Sec(1) + 1, SeedWarm),
      Gap(Sec(2), Sec(4) + 1, SeedFan),
      Gap(Sec(60), Sec(300), SeedCold),
      Gap(Sec(60), Sec(300), Nothing),
      Gap(Sec(300), Sec(301) + Hours(1), SeedWarm),
      Gap(Sec(421), Sec(451) + Hours(2), SeedWarm),
      Gap(Hours(3), Hours(171) + 1, SeedWarm) }

\* longer than 168 hours, the limit as the specification words it
Over168h(gap) == gap.end - gap.start > Hours(168)

\* the number of windows of a gap: the hours from one second after its start to
\* its end, rounded up; a gap over the age limit is given none
windows_from(cs, gap_end) ==
    IF cs < gap_end THEN (gap_end - cs + Hours(1) - 1) \div Hours(1) ELSE 0
windows_of(gap) ==
    IF Over168h(gap) THEN 0 ELSE windows_from(gap.start + Sec(1), gap.end)

RECURSIVE windows_of_all(_)
windows_of_all(gs) == IF gs = <<>> THEN 0 ELSE windows_of(Head(gs)) + windows_of_all(Tail(gs))

GapLists ==
    { gs \in UNION { [1..n -> GapOptions] : n \in 1..MaxGaps } :
         windows_of_all(gs) <= MaxWindows }

evTemp70 == Event("temperature", "70", 1)
evTemp68 == Event("temperature", "68", 2)
evHeat == Event("thermostatOperatingState", "heating", 2)
evIdle == Event("thermostatOperatingState", "idle", 1)
evCool == Event("thermostatOperatingState", "cooling", 3)
evFan == Event("thermostatOperatingState", "fan only", 1)
evSwitch == Event("switch", "on", 1)
evTemp55 == Event("temperature", "55", 1)

FillResponses ==
    { <<>>, <<evTemp70>>, <<evHeat>>, <<evIdle>>, <<evCool>>, <<evFan>>, <<evSwitch>>,
      <<evHeat, evIdle>>, <<evTemp68, evFan>>, <<evTemp70, evTemp55>> }

\* the runs that gave a list of events, and the runs that failed
OkRuns(Responses) == {Ok(evs) : evs \in Responses}
FailedRuns == {CliRun(kind, <<>>) : kind \in ChunkFailures}

FInit ==
    /\ clock = Hours(171) + Sec(1)
    /\ csv = [exists |-> TRUE, lines |-> <<HeaderLine>>]
    /\ min_gap_seconds = BACKFILL_MIN_GAP
    /\ gaps \in GapLists
    /\ pc = "gap"
    /\ history = <<>>
    /\ histfile = NoHistFile
    /\ gi = 1
    /\ total_points = 0
    /\ chunk_start = 0
    /\ state = DefaultState
    /\ points = <<>>
    /\ events = <<>>
    /\ queries = <<>>
    /\ NotRunning
    /\ nticks = 0
    /\ restarts = 0
    /\ ExtIdle

FNext ==
    \/ BackfillSkipGap
    \/ BackfillEnterGap
    \/ BackfillWindow(OkRuns(FillResponses) \cup FailedRuns)
    \/ BackfillStore({TRUE})
    \/ BackfillMerge({"written"})
    \/ BackfillUnlock

SpecFill == FInit /\ [][FNext]_vars

----------------------------------------------------------------------------
(* fetch_status and record_data_point *)

\* dict.get(key, default) and dict.get(key)
dict_get(v, default) == IF v = Absent THEN default ELSE v
dict_get_none(v) == dict_get(v, None)

\* x or y for the values of a status
py_or(x, y) == IF x \in {None, "0", ""} THEN y ELSE x

\* Variant: a failed outlet query fails the whole status.
fetch_status_all_or_nothing(primary, outlet) ==
    IF primary = Nothing \/ outlet = Nothing THEN [NoStatus EXCEPT !.error = TRUE]
    ELSE [error |-> FALSE,
          temperature |-> primary[1].temperature,
          primaryTemp |-> primary[1].primaryTemp,
          outdoorTemp |-> primary[1].outdoorTemp,
          heatingSetpoint |-> primary[1].heatingSetpoint,
          coolingSetpoint |-> primary[1].coolingSetpoint,
          operatingState |-> primary[1].operatingState,
          mode |-> primary[1].mode,
          outletSwitch |-> outlet[1]]

\* primary: what get_val reads from the thermostat's answer, Nothing when the
\* request raised; outlet: the switch value, Nothing when the request raised.
fetch_status(primary, outlet) ==
    LET result ==
            IF primary = Nothing THEN [NoStatus EXCEPT !.error = TRUE]
            ELSE [error |-> FALSE,
                  temperature |-> primary[1].temperature,
                  primaryTemp |-> primary[1].primaryTemp,
                  outdoorTemp |-> primary[1].outdoorTemp,
                  heatingSetpoint |-> primary[1].heatingSetpoint,
                  coolingSetpoint |-> primary[1].coolingSetpoint,
                  operatingState |-> primary[1].operatingState,
                  mode |-> primary[1].mode,
                  outletSwitch |-> Absent]
    IN [result EXCEPT !.outletSwitch = IF outlet = Nothing THEN "unknown" ELSE outlet[1]]

\* What api_get raises when a device query fails: no connection (URLError), no
\* answer in time (timeout), an HTTP error status such as 401 or 403
\* (HTTPError), no credentials file (FileNotFoundError), a refresh that failed
\* (RuntimeError), a body that is not JSON (JSONDecodeError).
QueryFailures ==
    {"URLError", "timeout", "HTTPError", "FileNotFoundError", "RuntimeError", "JSONDecodeError"}

\* try: data = api_get(...) ... except Exception: ... -- what the statement
\* leaves of the query (Nothing when the exception was caught) and the
\* exception that leaves it
try_query(q) == IF q.exc = "" THEN q.val ELSE Nothing
try_escapes(q) == q.exc # "" /\ ~except_Exception(q.exc)

\* a call of fetch_status(pat), the two queries being pq and oq
fetch_status_call(pq, oq) ==
    IF try_escapes(pq) THEN Raised(pq.exc)
    ELSE IF try_escapes(oq) THEN Raised(oq.exc)
    ELSE Returned(fetch_status(try_query(pq), try_query(oq)))

\* the point record_data_point builds from a status at time now
make_point(st, now) ==
    Point(now,
          State(py_or(dict_get_none(st.temperature), dict_get_none(st.primaryTemp)),
                dict_get_none(st.outdoorTemp),
                dict_get_none(st.heatingSetpoint),
                dict_get_none(st.coolingSetpoint),
                dict_get(st.operatingState, "idle"),
                dict_get(st.mode, "off"),
                dict_get(st.outletSwitch, "unknown")))

\* the critical section of record_data_point: append, prune, save
record_locked(h, pt, now) == prune_history(Append(h, pt), now)

\* Variant: what could be read of a file that is not valid is kept.
load_history_partial(file, h, now) ==
    IF ~file.exists THEN h ELSE prune_history(file.data, now)

\* load_history: the file's list, pruned; [] when it cannot be read
load_history(file, h, now) ==
    IF ~file.exists THEN h
    ELSE IF file.valid THEN prune_history(file.data, now)
    ELSE <<>>

----------------------------------------------------------------------------
(* The threads.  The main thread runs main(): validation, load_history,    *)
(* init_csv, backfill_from_history, start_poller with its first sample,    *)
(* then the server.  The poller thread runs poll_loop.                     *)

PcOf(t) == IF t = "main" THEN pc ELSE ppc
AtFetch(t) == IF t = "main" THEN pc = "m_fetch" ELSE ppc = "fetch"

\* Variant: the poller does not wait.
AfterSample_nowait(t) ==
    IF t = "main"
    THEN pc' = "serve" /\ UNCHANGED <<ppc, wake>>
    ELSE ppc' = "sleep" /\ wake' = clock /\ UNCHANGED pc

\* where a thread goes after its sample, recorded or skipped
AfterSample(t) ==
    IF t = "main"
    THEN pc' = "serve" /\ UNCHANGED <<ppc, wake>>
    ELSE ppc' = "sleep" /\ wake' = clock + Sec(POLL_INTERVAL) /\ UNCHANGED pc

Goto(t, where) ==
    IF t = "main" THEN pc' = where /\ UNCHANGED ppc ELSE ppc' = where /\ UNCHANGED pc

\* api_get of main(): credentials validated, or sys.exit(1)
Validate(Outcomes) ==
    /\ pc = "validate"
    /\ \E ok \in Outcomes : pc' = IF ok THEN "load" ELSE "exited"
    /\ UNCHANGED <<clock, csv, min_gap_seconds, gaps, storeVars, passVars,
                   runVars, nticks, reqVars>>
    /\ UNCHANGED extVars

LoadHistory ==
    /\ pc = "load"
    /\ history' = load_history(histfile, history, clock)
    /\ pc' = "init_csv"
    /\ UNCHANGED <<clock, csv, min_gap_seconds, gaps, histfile, passVars,
                   runVars, nticks, reqVars>>
    /\ UNCHANGED extVars

InitCsv ==
    /\ pc = "init_csv"
    /\ csv' = init_csv(csv)
    /\ pc' = "find_gaps"
    /\ UNCHANGED <<clock, min_gap_seconds, gaps, storeVars, passVars,
                   runVars, nticks, reqVars>>
    /\ UNCHANGED extVars

\* gaps = find_csv_gaps(min_gap_seconds=BACKFILL_MIN_GAP); total_points = 0
FindGaps ==
    /\ pc = "find_gaps"
    /\ min_gap_seconds' = BACKFILL_MIN_GAP
    /\ gaps' = find_csv_gaps(csv, BACKFILL_MIN_GAP, clock)
    /\ gi' = 1
    /\ total_points' = 0
    /\ queries' = <<>>
    /\ pc' = "gap"
    /\ UNCHANGED <<clock, csv, storeVars, chunk_start, state, points, events,
                   runVars, nticks, reqVars>>
    /\ UNCHANGED extVars

\* Variant: a sample is kept only when the snapshot file could be written.
RecordLocked_if_saved(t, SaveOutcomes) ==
    /\ PcOf(t) = "rec_lock"
    /\ lock = "free"
    /\ lock' = t
    /\ \E out \in SaveOutcomes :
          /\ history' = IF out = "written"
                         THEN record_locked(history, point[t], clock)
                         ELSE history
          /\ histfile' = save_history(histfile, history', out)
    /\ Goto(t, "rec_unlock")
    /\ UNCHANGED <<clock, csv, min_gap_seconds, gaps, passVars,
                   status, point, cache, wake, restarts, nticks, reqVars>>
    /\ UNCHANGED <<snap, api>>

\* Variant: the poller is started before the backfill pass.
StartPoller_early ==
    /\ pc = "init_csv"
    /\ ppc' = "fetch"
    /\ pc' = "m_fetch"
    /\ UNCHANGED <<clock, csv, min_gap_seconds, gaps, storeVars, passVars,
                   status, point, cache, wake, restarts, nticks, reqVars>>
    /\ UNCHANGED extVars

\* start_poller: t.start()
StartPoller ==
    /\ pc = "start_poller"
    /\ ppc' = "fetch"
    /\ pc' = "m_fetch"
    /\ UNCHANGED <<clock, csv, min_gap_seconds, gaps, storeVars, passVars,
                   status, point, cache, wake, restarts, nticks, reqVars>>
    /\ UNCHANGED extVars

\* status = fetch_status(pat); if "error" not in status: record_data_point
\* builds its point (now = time.time())
Sample(t, Primaries, Outlets) ==
    /\ AtFetch(t)
    /\ \E primary \in Primaries, outlet \in Outlets :
          LET st == fetch_status(primary, outlet)
          IN /\ (Len(csv.lines) > MaxLog => st.error)
             /\ IF st.error
                THEN AfterSample(t) /\ UNCHANGED <<status, point>>
                ELSE /\ status' = [status EXCEPT ![t] = st]
                     /\ point' = [point EXCEPT ![t] = make_point(st, clock)]
                     /\ Goto(t, "rec_lock")
                     /\ UNCHANGED wake
    /\ UNCHANGED <<clock, csv, min_gap_seconds, gaps, storeVars, passVars,
                   cache, restarts, nticks, reqVars>>
    /\ UNCHANGED extVars

\* with _history_lock: _history.append(point); prune_history(); save_history();
\* the lock is released by Unlock
RecordLocked(t, SaveOutcomes) ==
    /\ PcOf(t) = "rec_lock"
    /\ lock = "free"
    /\ lock' = t
    /\ history' = record_locked(history, point[t], clock)
    /\ \E out \in SaveOutcomes : histfile' = save_history(histfile, history', out)
    /\ Goto(t, "rec_unlock")
    /\ UNCHANGED <<clock, csv, min_gap_seconds, gaps, passVars,
                   status, point, cache, wake, restarts, nticks, reqVars>>
    /\ UNCHANGED <<snap, api>>

\* where a thread is after the with _history_lock block of record_data_point
\* and of get_history; an exception raised inside the block leaves it too
after_unlock ==
    [rec_unlock |-> "rec_csv", hist_unlock |-> "h_send", rec_raised |-> "rec_except"]

\* the end of a with _history_lock block
Unlock(t) ==
    /\ lock = t
    /\ PcOf(t) \in DOMAIN after_unlock
    /\ lock' = unlocked(t)
    /\ Goto(t, after_unlock[PcOf(t)])
    /\ UNCHANGED <<clock, csv, min_gap_seconds, gaps, storeVars, passVars,
                   status, point, cache, wake, restarts, nticks, reqVars, snap, api>>

\* append_csv(point), after the lock is released
RecordCsv(t, IoOutcomes) ==
    /\ PcOf(t) = "rec_csv"
    /\ \E ok \in IoOutcomes : csv' = append_csv(csv, point[t], ok)
    /\ Goto(t, "rec_cache")
    /\ UNCHANGED <<clock, min_gap_seconds, gaps, storeVars, passVars,
                   status, point, cache, wake, restarts, nticks, reqVars>>
    /\ UNCHANGED extVars

\* _cache["status"] = {"data": status, "ts": time.time()}
CacheUpdate(t) ==
    /\ PcOf(t) = "rec_cache"
    /\ cache' = [data |-> Some(status[t]), ts |-> clock]
    /\ prev' = IF prev = Nothing THEN prev ELSE Some([prev[1] EXCEPT !.polled = TRUE])
    /\ status' = [status EXCEPT ![t] = NoStatus]
    /\ point' = [point EXCEPT ![t] = NoPoint]
    /\ AfterSample(t)
    /\ UNCHANGED <<clock, csv, min_gap_seconds, gaps, storeVars, passVars,
                   restarts, nticks, rnow, fetches>>
    /\ UNCHANGED extVars

\* time.sleep(POLL_INTERVAL) returns
PollerWake ==
    /\ ppc = "sleep"
    /\ clock >= wake
    /\ ppc' = "fetch"
    /\ UNCHANGED <<clock, csv, min_gap_seconds, gaps, pc, storeVars, passVars,
                   status, point, cache, wake, restarts, nticks, reqVars>>
    /\ UNCHANGED extVars

\* The process is killed and started again: the files stay, the memory is lost.
Restart ==
    /\ pc # "validate"
    /\ restarts < MaxRestarts
    /\ restarts' = restarts + 1
    /\ pc' = "validate"
    /\ history' = <<>>
    /\ gaps' = <<>>
    /\ min_gap_seconds' = 0
    /\ gi' = 0
    /\ total_points' = 0
    /\ chunk_start' = 0
    /\ state' = DefaultState
    /\ points' = <<>>
    /\ events' = <<>>
    /\ queries' = <<>>
    /\ ppc' = "off"
    /\ status' = [t \in Threads |-> NoStatus]
    /\ point' = [t \in Threads |-> NoPoint]
    /\ cache' = EmptyCache
    /\ wake' = 0
    /\ rnow' = 0
    /\ fetches' = 0
    /\ prev' = Nothing
    /\ UNCHANGED <<clock, csv, histfile, nticks>>
    /\ lock' = "free"
    /\ snap' = Nothing
    /\ api' = ApiIdle

\* No thread is between reading the clock and finishing what it does with it.
Quiet == pc \in {"validate", "serve", "exited"} /\ ppc \in {"off", "sleep"}

\* Time passes: by a short step at any moment, by a long one while the process
\* is down or all its threads wait.
Tick(ShortSteps, LongSteps) ==
    /\ nticks < MaxTicks
    /\ nticks' = nticks + 1
    /\ \E d \in ShortSteps \cup (IF Quiet THEN LongSteps ELSE {}) : clock' = clock + d
    /\ UNCHANGED <<csv, min_gap_seconds, gaps, pc, storeVars, passVars, runVars, reqVars>>
    /\ UNCHANGED extVars

----------------------------------------------------------------------------
(* get_status_cached, called by the request handler on the main thread     *)
(* (http.server.HTTPServer serves one request at a time).                  *)

\* _cache["status"]["data"] and (now - _cache["status"]["ts"]) < 30
\* Variant: an entry exactly 30 seconds old still counts.
cache_hit_inclusive(c, now) == c.data # Nothing /\ now - c.ts <= Sec(CACHE_TTL)

cache_hit(c, now) == c.data # Nothing /\ now - c.ts < Sec(CACHE_TTL)

\* now = time.time(); the test of the cache
GetBegin ==
    /\ pc = "serve"
    /\ rnow' = clock
    /\ pc' = IF cache_hit(cache, clock) THEN "g_hit" ELSE "g_fetch"
    /\ UNCHANGED <<clock, csv, min_gap_seconds, gaps, storeVars, passVars,
                   ppc, status, point, cache, wake, restarts, nticks, fetches, prev>>
    /\ UNCHANGED extVars

\* return _cache["status"]["data"]
GetReturnCached ==
    /\ pc = "g_hit"
    /\ pc' = "serve"
    /\ prev' = IF prev = Nothing THEN prev ELSE Some([prev[1] EXCEPT !.hit = TRUE])
    /\ rnow' = 0
    /\ UNCHANGED <<clock, csv, min_gap_seconds, gaps, storeVars, passVars,
                   ppc, status, point, cache, wake, restarts, nticks, fetches>>
    /\ UNCHANGED extVars

\* Variant: a fetch made for a request is recorded like a poll.
GetFetch_recording(Primaries, Outlets) ==
    /\ pc = "g_fetch"
    /\ \E pq \in Primaries, oq \in Outlets :
          LET call == fetch_status_call(pq, oq)
          IN /\ call.exc = ""
             /\ pc' = "serve"
             /\ cache' = [data |-> call.val, ts |-> rnow]
             /\ prev' = Some([at |-> rnow, polled |-> FALSE, hit |-> FALSE])
             /\ history' = IF call.val[1].error THEN history
                           ELSE record_locked(history, make_point(call.val[1], rnow), rnow)
    /\ fetches' = fetches + 1
    /\ rnow' = 0
    /\ UNCHANGED <<clock, csv, min_gap_seconds, gaps, histfile, passVars,
                   ppc, status, point, wake, restarts, nticks>>
    /\ UNCHANGED extVars

\* data = fetch_status(pat); _cache["status"] = {"data": data, "ts": now};
\* return data.  An exception that leaves fetch_status leaves do_GET.
GetFetch(Primaries, Outlets) ==
    /\ pc = "g_fetch"
    /\ \E pq \in Primaries, oq \in Outlets :
          LET call == fetch_status_call(pq, oq)
          IN IF call.exc # ""
             THEN /\ pc' = "g_raised"
                  /\ UNCHANGED <<cache, prev>>
             ELSE /\ pc' = "serve"
                  /\ cache' = [data |-> call.val, ts |-> rnow]
                  /\ prev' = Some([at |-> rnow, polled |-> FALSE, hit |-> FALSE])
    /\ fetches' = fetches + 1
    /\ rnow' = 0
    /\ UNCHANGED <<clock, csv, min_gap_seconds, gaps, storeVars, passVars,
                   ppc, status, point, wake, restarts, nticks>>
    /\ UNCHANGED extVars

----------------------------------------------------------------------------
(* get_history, called by the request handler for /api/history.  What the  *)
(* caller holds is a list of its own (val) or the list of the store (ref). *)

\* Variant: return _history
get_history_live(h) == [ref |-> TRUE, val |-> h]

\* with _history_lock: return list(_history)
get_history(h) == [ref |-> FALSE, val |-> h]

\* what the caller of get_history reads in the list it was given
contents(s, live) == IF s.ref THEN live ELSE s.val

\* Variant: requests are answered from the start of the process.
serving_early(p) == p \in {"serve", "gap"}

\* the server answers requests: serve_forever, on the main thread
serving(p) == p = "serve"

\* do_GET /api/history: get_history() up to the end of its with block
GetHistory ==
    /\ serving(pc)
    /\ lock = "free"
    /\ lock' = "main"
    /\ snap' = Some(get_history(history))
    /\ pc' = "hist_unlock"
    /\ UNCHANGED <<clock, csv, min_gap_seconds, gaps, storeVars, passVars,
                   runVars, nticks, reqVars, api>>

\* _serve_json: json.dumps of the list and the answer
SendHistory ==
    /\ pc = "h_send"
    /\ snap' = Nothing
    /\ pc' = "serve"
    /\ UNCHANGED <<clock, csv, min_gap_seconds, gaps, storeVars, passVars,
                   runVars, nticks, reqVars, lock, api>>

----------------------------------------------------------------------------
(* Specification Spec: the process from its first start, killed and        *)
(* started again up to MaxRestarts times.                                  *)

DevFull ==
    Some([temperature |-> "70", primaryTemp |-> "68", outdoorTemp |-> "55",
          heatingSetpoint |-> "68", coolingSetpoint |-> "70",
          operatingState |-> "heating", mode |-> "heat"])
DevBare ==
    Some([temperature |-> None, primaryTemp |-> "68", outdoorTemp |-> None,
          heatingSetpoint |-> "68", coolingSetpoint |-> None,
          operatingState |-> "idle", mode |-> "heat"])

LifePrimaries == {DevFull, Nothing}
LifeOutlets == {Some("on")}
LifeResponses == {<<>>, <<evIdle>>}
LifeShortSteps == {1, Sec(300)}
LifeLongSteps == {Sec(8 * 24 * 3600)}

Init ==
    /\ clock = 0
    /\ csv = [exists |-> FALSE, lines |-> <<>>]
    /\ min_gap_seconds = 0
    /\ gaps = <<>>
    /\ pc = "validate"
    /\ history = <<>>
    /\ histfile = NoHistFile
    /\ PassIdle
    /\ NotRunning
    /\ nticks = 0
    /\ restarts = 0
    /\ ExtIdle

Next ==
    \/ Validate({TRUE, FALSE})
    \/ LoadHistory
    \/ InitCsv
    \/ FindGaps
    \/ BackfillSkipGap
    \/ BackfillEnterGap
    \/ BackfillWindow(OkRuns(LifeResponses))
    \/ BackfillStore({TRUE})
    \/ BackfillMerge({"written"})
    \/ BackfillUnlock
    \/ StartPoller
    \/ \E t \in Threads : Sample(t, LifePrimaries, LifeOutlets)
    \/ \E t \in Threads : RecordLocked(t, {"written"})
    \/ \E t \in Threads : Unlock(t)
    \/ \E t \in Threads : RecordCsv(t, {TRUE})
    \/ \E t \in Threads : CacheUpdate(t)
    \/ PollerWake
    \/ GetHistory
    \/ SendHistory
    \/ Restart
    \/ Tick(LifeShortSteps, LifeLongSteps)

Spec == Init /\ [][Next]_vars

----------------------------------------------------------------------------
(* Specification SpecServe: a fresh installation from start_poller on: the *)
(* poller, the first sample of the main thread, and the requests.          *)

ServePrimaries == {DevBare, Nothing}
ServeOutlets == {Some("on"), Nothing}
ServeSteps == {Sec(2), Sec(29), Sec(30)}

\* the queries of a fetch_status call of the request handler
ReadPrimaries == {Returned(DevBare[1])} \cup {Raised(e) : e \in QueryFailures}
ReadOutlets == {Returned("on"), Raised("timeout")}

SInit ==
    /\ clock = 0
    /\ csv = init_csv([exists |-> FALSE, lines |-> <<>>])
    /\ min_gap_seconds = BACKFILL_MIN_GAP
    /\ gaps = <<>>
    /\ pc = "start_poller"
    /\ history = <<>>
    /\ histfile = NoHistFile
    /\ PassIdle
    /\ NotRunning
    /\ nticks = 0
    /\ restarts = 0
    /\ ExtIdle

SNext ==
    \/ StartPoller
    \/ \E t \in Threads : Sample(t, ServePrimaries, ServeOutlets)
    \/ \E t \in Threads : RecordLocked(t, {"written"})
    \/ \E t \in Threads : Unlock(t)
    \/ \E t \in Threads : RecordCsv(t, {TRUE})
    \/ \E t \in Threads : CacheUpdate(t)
    \/ PollerWake
    \/ GetHistory
    \/ SendHistory
    \/ GetBegin
    \/ GetReturnCached
    \/ GetFetch(ReadPrimaries, ReadOutlets)
    \/ Tick(ServeSteps, {})

SpecServe == SInit /\ [][SNext]_vars

----------------------------------------------------------------------------
(* api_get.  A call is [at, path, use_cli, token, attempt, sent, refreshes, *)
(* calls]: sent lists the requests made, each with the token it carried    *)
(* and the answer it got; calls counts the calls that are over.            *)

MAX_ATTEMPTS == 2

\* the answers to a request: a decoded body, a body that is not JSON, HTTP
\* errors, no answer
ApiAnswers == {"200", "200 bad body", "401", "403", "500", "timeout"}
ApiPaths == {"thermostat", "outlet"}

\* Variant: every 401 is answered by a refresh.
may_refresh_always(code, attempt, use_cli) == code = "401" /\ use_cli

\* e.code == 401 and attempt == 0 and use_cli
may_refresh(code, attempt, use_cli) == code = "401" /\ attempt = 0 /\ use_cli

ApiEnded == api.at \in {"returned", "raised"}

\* api_get(path, pat): token = read_cli_token() if use_cli else pat
ApiCall(Modes, ReadOutcomes) ==
    /\ api.at = "idle"
    /\ api.calls < MaxCalls
    /\ \E path \in ApiPaths, use_cli \in Modes, ok \in ReadOutcomes :
          api' = [at |-> IF use_cli /\ ~ok THEN "raised" ELSE "request",
                  path |-> path, use_cli |-> use_cli,
                  token |-> IF use_cli THEN "cli token" ELSE "pat",
                  attempt |-> 0, sent |-> <<>>, refreshes |-> 0,
                  calls |-> api.calls]
    /\ UNCHANGED <<clock, csv, min_gap_seconds, gaps, pc, storeVars, passVars,
                   runVars, nticks, reqVars, lock, snap>>

\* one iteration of "for attempt in range(2)": urlopen and what follows it
ApiRequest(Answers) ==
    /\ api.at = "request"
    /\ \E code \in Answers :
          api' = [api EXCEPT
                    !.sent = Append(@, [token |-> api.token, code |-> code]),
                    !.at = IF code = "200" THEN "returned"
                           ELSE IF may_refresh(code, api.attempt, api.use_cli)
                                THEN "refresh"
                                ELSE "raised"]
    /\ UNCHANGED <<clock, csv, min_gap_seconds, gaps, pc, storeVars, passVars,
                   runVars, nticks, reqVars, lock, snap>>

\* refresh_cli_token(); token = read_cli_token(); continue
ApiRefresh(RefreshOutcomes, ReadOutcomes) ==
    /\ api.at = "refresh"
    /\ \E refreshed \in RefreshOutcomes, ok \in ReadOutcomes :
          api' = [api EXCEPT
                    !.refreshes = @ + 1,
                    !.token = IF refreshed /\ ok THEN "refreshed token" ELSE @,
                    !.attempt = IF refreshed /\ ok THEN @ + 1 ELSE @,
                    !.at = IF ~(refreshed /\ ok) THEN "raised"
                           ELSE IF api.attempt + 1 < MAX_ATTEMPTS THEN "request"
                           ELSE "returned"]
    /\ UNCHANGED <<clock, csv, min_gap_seconds, gaps, pc, storeVars, passVars,
                   runVars, nticks, reqVars, lock, snap>>

\* the call is over
ApiEnd ==
    /\ ApiEnded
    /\ api' = [ApiIdle EXCEPT !.calls = api.calls + 1]
    /\ UNCHANGED <<clock, csv, min_gap_seconds, gaps, pc, storeVars, passVars,
                   runVars, nticks, reqVars, lock, snap>>

(* Specification SpecApi: api_get calls, for every credential kind and     *)
(* every answer to every request.                                          *)

AInit ==
    /\ clock = 0
    /\ csv = [exists |-> FALSE, lines |-> <<>>]
    /\ min_gap_seconds = 0
    /\ gaps = <<>>
    /\ pc = "validate"
    /\ history = <<>>
    /\ histfile = NoHistFile
    /\ PassIdle
    /\ NotRunning
    /\ nticks = 0
    /\ restarts = 0
    /\ ExtIdle

ANext ==
    \/ ApiCall({TRUE, FALSE}, {TRUE, FALSE})
    \/ ApiRequest(ApiAnswers)
    \/ ApiRefresh({TRUE, FALSE}, {TRUE, FALSE})
    \/ ApiEnd

SpecApi == AInit /\ [][ANext]_vars

\* the answer to the n-th request of the call
Answer(n) == api.sent[n].code
Requests == Len(api.sent)

\* C17 as stated: a 401 triggers exactly one refresh and exactly one retry.
C17_RefreshAndRetryOn401 ==
    (ApiEnded /\ Requests >= 1 /\ Answer(1) = "401") =>
        (api.refreshes = 1 /\ Requests = 2)

\* C17: with CLI credentials a 401 to the first request triggers exactly one
\* refresh and, when the refresh and the new read of the token succeed, exactly
\* one retry, which carries the new token; with a personal access token a 401
\* is raised at once; a failure of the retried request, of the refresh or of
\* the read is raised; no call makes more than two requests or more than one
\* refresh.
C17_RefreshAndRetryWithCli ==
    /\ Requests <= 2
    /\ api.refreshes <= 1
    /\ (ApiEnded /\ Requests >= 1 /\ Answer(1) = "401" /\ api.use_cli) =>
          /\ api.refreshes = 1
          /\ Requests = 2 <=> api.token = "refreshed token"
          /\ Requests = 1 => api.at = "raised"
    /\ (ApiEnded /\ Requests >= 1 /\ Answer(1) = "401" /\ ~api.use_cli) =>
          (api.refreshes = 0 /\ Requests = 1 /\ api.at = "raised")
    /\ (ApiEnded /\ Requests >= 1 /\ Answer(1) # "401") =>
          (api.refreshes = 0 /\ Requests = 1)
    /\ (ApiEnded /\ Requests = 2) =>
          /\ api.sent[2].token = "refreshed token"
          /\ api.at = "returned" <=> Answer(2) = "200"
    /\ api.at = "returned" => Answer(Requests) = "200"

\* The retried request, sent with the refreshed token, got a 401 again: the
\* call has raised after two requests and one refresh.
C17_Witness ==
    /\ api.at = "raised"
    /\ Requests = 2
    /\ Answer(1) = "401"
    /\ Answer(2) = "401"
    /\ api.refreshes = 1

----------------------------------------------------------------------------
(* Specification SpecIo: a start, eight days after the first one, on a log *)
(* with one row ten minutes old, for every content of the snapshot file    *)
(* and every outcome of every write to the two files.                      *)

IoStart == Sec(8 * 24 * 3600)
IoSample(ts) == make_point(fetch_status(DevFull, Some("on")), ts)
IoLog == append_csv(init_csv([exists |-> FALSE, lines |-> <<>>]), IoSample(IoStart), TRUE)

\* the snapshot file: missing; written by save_history; cut by a failed write;
\* not valid, with a sample that a lenient reader would get out of it
HistFileOptions ==
    { NoHistFile,
      [exists |-> TRUE, valid |-> TRUE, data |-> <<IoSample(0), IoSample(IoStart)>>],
      [exists |-> TRUE, valid |-> FALSE, data |-> <<>>],
      [exists |-> TRUE, valid |-> FALSE, data |-> <<IoSample(IoStart)>>] }

SaveAll == {"written", "not opened", "cut"}

IInit ==
    /\ clock = IoStart + Sec(600)
    /\ csv = IoLog
    /\ min_gap_seconds = 0
    /\ gaps = <<>>
    /\ pc = "validate"
    /\ history = <<>>
    /\ histfile \in HistFileOptions
    /\ PassIdle
    /\ NotRunning
    /\ nticks = 0
    /\ restarts = 0
    /\ ExtIdle

INext ==
    \/ Validate({TRUE})
    \/ LoadHistory
    \/ InitCsv
    \/ FindGaps
    \/ BackfillEnterGap
    \/ BackfillWindow(OkRuns(LifeResponses))
    \/ BackfillStore({TRUE, FALSE})
    \/ BackfillMerge(SaveAll)
    \/ BackfillUnlock
    \/ StartPoller
    \/ \E t \in Threads : Sample(t, LifePrimaries, LifeOutlets)
    \/ \E t \in Threads : RecordLocked(t, SaveAll)
    \/ \E t \in Threads : Unlock(t)
    \/ \E t \in Threads : RecordCsv(t, {TRUE, FALSE})
    \/ \E t \in Threads : CacheUpdate(t)
    \/ PollerWake
    \/ GetHistory
    \/ SendHistory
    \/ Tick({Sec(60)}, {})

SpecIo == IInit /\ [][INext]_vars

\* the samples of a sequence
Samples(h) == {h[i] : i \in 1..Len(h)}

\* the step of a thread from one position to another
Moves(t, from, to) == PcOf(t) = from /\ PcOf(t)' = to

\* C18: when a write to the snapshot file or to the CSV log fails during an
\* append or a merge, nothing is raised out of the store operation, the sample
\* is in the in-memory history, later get_history calls return it, and the
\* write is not tried again: whatever the writes do, the operation goes on to
\* its next step with the sample in the history, no sample leaves the history,
\* and each file is written only by the operation's own step.
C18_WriteFailureSwallowed ==
    [][/\ \A t \in Threads :
            /\ Moves(t, "rec_lock", "rec_unlock") => history' = Append(history, point[t])
            /\ PcOf(t) = "rec_lock" => PcOf(t)' \in {"rec_lock", "rec_unlock"}
            /\ PcOf(t) = "rec_csv" =>
                  /\ PcOf(t)' \in {"rec_csv", "rec_cache"}
                  /\ point[t] \in Samples(history')
       /\ (pc = "window" /\ pc' \in {"gap", "store_unlock"}) => history' = history \o points
       /\ Samples(history) \subseteq Samples(history')
       /\ (snap = Nothing /\ snap' # Nothing) => contents(snap'[1], history') = history
       /\ histfile' # histfile =>
            \/ \E t \in Threads : Moves(t, "rec_lock", "rec_unlock")
            \/ Moves("main", "gap", "merge_unlock")
       /\ csv' # csv =>
            \/ \E t \in Threads :
                  /\ Moves(t, "rec_csv", "rec_cache")
                  /\ csv'.lines = Append(csv.lines, csv_row(point[t]))
            \/ /\ Moves("main", "window", "store_unlock")
               /\ Len(csv'.lines) <= Len(csv.lines) + Len(points)]_vars

\* a sample of the history that is in neither file
OnlyInMemory(p) ==
    /\ csv_row(p) \notin Samples(csv.lines)
    /\ ~(histfile.exists /\ histfile.valid /\ p \in Samples(histfile.data))

\* A get_history call has returned a recorded sample and a synthesized one
\* that are in neither file; the threads that added them have gone on.
C18_Witness ==
    /\ pc = "h_send"
    /\ ppc = "sleep"
    /\ snap # Nothing
    /\ \E p, q \in Samples(contents(snap[1], history)) :
          /\ p.ts < clock - Sec(60)
          /\ q.ts >= clock - Sec(60)
          /\ OnlyInMemory(p)
          /\ OnlyInMemory(q)

\* C19: when the snapshot file is missing, unreadable or not valid,
\* load_history leaves the in-memory history empty and the startup goes on; a
\* file that is valid gives its samples of the last 7 days, never a part.
C19_LoadFallsBackToEmpty ==
    [][/\ pc = "load" => pc' \in {"load", "init_csv"}
       /\ Moves("main", "load", "init_csv") =>
            /\ ~(histfile.exists /\ histfile.valid) => history' = <<>>
            /\ (histfile.exists /\ histfile.valid) =>
                  /\ Samples(history') =
                        {p \in Samples(histfile.data) : clock - p.ts < Sec(7 * 24 * 3600)}
                  /\ Len(history') <= Len(histfile.data)
            /\ UNCHANGED <<histfile, csv>>]_vars

\* load_history has met a file that is not valid but holds a readable sample.
C19_Witness ==
    /\ pc = "init_csv"
    /\ histfile.exists
    /\ ~histfile.valid
    /\ histfile.data # <<>>
    /\ history = <<>>

----------------------------------------------------------------------------
(* Claims about the cache and the poll cycle *)

\* a call of get_status_cached reads the clock and tests the cache
CallStep == pc = "serve" /\ pc' \in {"g_hit", "g_fetch"}

\* the last call that fetched, when no sample has replaced its cache entry since
SinceLastFetch == prev # Nothing /\ ~prev[1].polled

\* C9: get_status_cached returns the cached entry without fetching exactly when
\* an entry exists and is less than 30 seconds old; a call less than 30 seconds
\* after a call that fetched, with no poll in between, issues no fetch, and a
\* call 30 seconds or more after it (31 seconds, say) issues a second one.
C9_CachedBelowThirtySeconds ==
    [][/\ CallStep =>
            /\ pc' = "g_hit" <=> (cache.data # Nothing /\ clock - cache.ts < Sec(30))
            /\ SinceLastFetch => (pc' = "g_hit" <=> clock - prev[1].at < Sec(30))
            /\ fetches' = fetches
       /\ (pc = "g_hit" /\ pc' = "serve") => (fetches' = fetches /\ cache' = cache)
       /\ (pc = "g_fetch" /\ pc' = "serve") => fetches' = fetches + 1]_vars

\* The first call fetched, a second one within 30 seconds was answered from
\* the cache, and the call 31 seconds after the first is about to fetch again.
C9_Witness ==
    /\ pc = "g_fetch"
    /\ fetches = 1
    /\ SinceLastFetch
    /\ prev[1].hit
    /\ rnow - prev[1].at = Sec(31)

\* the poller has fetched a status whose outlet query failed
OutletFailed == status["poller"].outletSwitch = "unknown"

\* C10: a poll cycle whose thermostat query succeeds and whose outlet query
\* fails is not skipped: it appends exactly one sample, with outletSwitch
\* "unknown", to the history, and stores its status in the cache.
C10_OutletFailureStillRecorded ==
    [][/\ \A primary \in {DevFull, DevBare} :
            /\ ~fetch_status(primary, Nothing).error
            /\ fetch_status(primary, Nothing).outletSwitch = "unknown"
       /\ (ppc = "fetch" /\ ppc' = "rec_lock" /\ OutletFailed') =>
            /\ ~status'["poller"].error
            /\ point'["poller"].outletSwitch = "unknown"
            /\ point'["poller"].ts = clock
            /\ history' = history
       /\ (ppc = "rec_lock" /\ ppc' = "rec_unlock" /\ OutletFailed) =>
            history' = Append(history, point["poller"])
       /\ (ppc = "rec_unlock" /\ ppc' = "rec_csv" /\ OutletFailed) =>
            history' = history
       /\ (ppc = "rec_csv" /\ ppc' = "rec_cache" /\ OutletFailed) =>
            history' = history
       /\ (ppc = "rec_cache" /\ ppc' = "sleep" /\ OutletFailed) =>
            /\ cache' = [data |-> Some(status["poller"]), ts |-> clock]
            /\ cache'.data[1].outletSwitch = "unknown"
            /\ history' = history]_vars

\* The poller has finished such a cycle before the main thread took its sample.
C10_Witness ==
    /\ pc = "m_fetch"
    /\ ppc = "sleep"
    /\ Len(history) = 1
    /\ history[1].outletSwitch = "unknown"
    /\ history[1].ts = cache.ts
    /\ cache.data # Nothing
    /\ cache.data[1].outletSwitch = "unknown"
    /\ ~cache.data[1].error

\* C11: a poll cycle whose thermostat query fails changes neither the history,
\* nor the CSV log, nor the snapshot file, nor the cache; the poller stays alive,
\* sleeps its 60 seconds and does not sample again before they are over.
C11_FailedCycleSkipped ==
    [][/\ \A outlet \in {Some("on"), Nothing} : fetch_status(Nothing, outlet).error
       /\ (ppc = "fetch" /\ ppc' = "sleep") =>
            /\ history' = history
            /\ csv' = csv
            /\ histfile' = histfile
            /\ cache' = cache
            /\ wake' = clock + Sec(60)
       /\ (ppc = "sleep" /\ ppc' = "fetch") => clock >= wake
       /\ (ppc = "sleep" /\ clock < wake) => ppc' \in {"sleep", "off"}]_vars

\* The main thread's first sample is recorded and cached; the poller's cycle,
\* later, has failed: it sleeps and the cache entry is the older one.
C11_Witness ==
    /\ pc = "serve"
    /\ ppc = "sleep"
    /\ wake = clock + Sec(60)
    /\ fetches = 0
    /\ cache.data # Nothing
    /\ cache.ts < clock
    /\ Len(history) = 1
    /\ Len(csv.lines) = 2

----------------------------------------------------------------------------
(* Claims about the history lock and get_history *)

\* C12: in record_data_point the addition to the in-memory sequence, the row
\* appended to the CSV log and the pruning all happen inside one critical
\* section: a thread that has added its sample and not yet written its row
\* holds the history lock.
C12_CsvRowInsideLock == \A t \in Threads : PcOf(t) = "rec_csv" => lock = t

\* the positions at which a thread is inside a with _history_lock block
LockedPositions == {"rec_unlock", "hist_unlock", "store_unlock", "merge_unlock"}

\* the backfill pass has extended the history and not yet sorted and pruned it
Unmerged == total_points > 0 /\ pc \in {"gap", "window", "store_unlock"}

\* a get_history call returns
HistoryReturned == snap = Nothing /\ snap' # Nothing

\* C13: no get_history call returns a sequence that reflects a partly applied
\* mutation: when it reads, no thread is inside a critical section of the
\* store, no backfill sample awaits its sort and prune, and what it returns is
\* the history as the last complete mutation left it.
C13_NoPartialSnapshot ==
    [][HistoryReturned =>
          /\ \A t \in Threads : PcOf(t) \notin LockedPositions
          /\ ~Unmerged
          /\ contents(snap'[1], history) = history
          /\ history' = history]_vars

\* A request is answered after a start that merged a backfill sample between
\* two recorded ones.
C13_Witness ==
    /\ pc = "h_send"
    /\ snap # Nothing
    /\ total_points > 0
    /\ Len(history) = 3
    /\ contents(snap[1], history) = history

\* C14: the sequence returned by get_history is a copy: what its holder reads
\* in it is unchanged by every append, prune or merge that runs afterwards.
C14_SnapshotIsCopy ==
    [][(snap # Nothing /\ snap' = snap) =>
          contents(snap'[1], history') = contents(snap[1], history)]_vars

\* The poller has appended a sample since the call returned; the copy has not
\* got it.
C14_Witness ==
    /\ pc = "h_send"
    /\ snap # Nothing
    /\ Len(history) = Len(contents(snap[1], history)) + 1

\* the positions at which the next step of a thread is a remote call:
\* api_get (validation, fetch_status) or fetch_history_chunk
RemotePositions == {"validate", "window", "m_fetch", "fetch", "g_fetch"}

----------------------------------------------------------------------------
(* Claims about the read path *)

\* every outcome of the query of the thermostat and of the outlet
AnyPrimaryQuery == {Returned(DevFull[1]), Returned(DevBare[1])} \cup {Raised(e) : e \in QueryFailures}
AnyOutletQuery == {Returned("on"), Returned("off")} \cup {Raised(e) : e \in QueryFailures}

\* a request for /api/status is answered, from the cache or after a fetch
StatusReturned == pc \in {"g_hit", "g_fetch"} /\ pc' = "serve"

\* whatever the two queries do, fetch_status returns a result, with the error
\* field when the primary query failed
QueryFailuresContained ==
    \A pq \in AnyPrimaryQuery, oq \in AnyOutletQuery :
       LET call == fetch_status_call(pq, oq)
       IN /\ call.exc = ""
          /\ call.val # Nothing
          /\ pq.exc # "" => call.val[1].error

\* C22: in steady state the read path never raises: whatever failure either
\* device query meets, fetch_status returns a result object, which carries an
\* error field when the primary query failed; get_status_cached returns it, or
\* the cached object, and no exception leaves the request handler; get_history
\* returns a sequence.
C22_ReadPathNeverRaises ==
    [][/\ pc = "g_fetch" => QueryFailuresContained
       /\ pc' # "g_raised"
       /\ pc = "g_fetch" => pc' \in {"g_fetch", "serve"}
       /\ pc = "g_hit" => pc' \in {"g_hit", "serve"}
       /\ StatusReturned =>
             /\ cache'.data # Nothing
             /\ cache'.data[1].error \in BOOLEAN
       /\ HistoryReturned => DOMAIN snap'[1].val = 1..Len(history)]_vars

\* A request was answered after both of its device queries had failed: the
\* result it got carries the error and is in the cache.
C22_Witness ==
    /\ pc = "serve"
    /\ fetches > 0
    /\ SinceLastFetch
    /\ cache.data # Nothing
    /\ cache.data[1].error
    /\ cache.data[1].outletSwitch = "unknown"

\* the positions of the main thread while it serves: waiting for a request or
\* inside get_status_cached or get_history
RequestPositions == {"serve", "g_hit", "g_fetch", "hist_unlock", "h_send"}

\* a step of a read request
RequestStep == pc \in RequestPositions /\ pc' \in RequestPositions /\ pc' # pc

\* C23: no read request changes the history: every step of get_status_cached
\* (cache hit or fetch) and of get_history leaves the in-memory sequence, the
\* snapshot file and the CSV log as they were; while requests are served they
\* change only in the poller's record_data_point, the sequence and the snapshot
\* in its critical section, the log in its append_csv.
C23_ReadsChangeNothing ==
    [][/\ RequestStep => UNCHANGED <<history, histfile, csv>>
       /\ (pc \in RequestPositions /\ history' # history) =>
             Moves("poller", "rec_lock", "rec_unlock")
       /\ (pc \in RequestPositions /\ histfile' # histfile) =>
             Moves("poller", "rec_lock", "rec_unlock")
       /\ (pc \in RequestPositions /\ csv' # csv) =>
             Moves("poller", "rec_csv", "rec_cache")
       /\ history' # history => \E t \in Threads : Moves(t, "rec_lock", "rec_unlock")
       /\ csv' # csv => \E t \in Threads : Moves(t, "rec_csv", "rec_cache")]_vars

\* Requests of all three kinds have been answered (a fetch, a cache hit, and
\* get_history has just returned) and the history holds what was recorded.
C23_Witness ==
    /\ pc = "h_send"
    /\ fetches > 0
    /\ prev # Nothing
    /\ prev[1].hit
    /\ history # <<>>
    /\ histfile.data = history
    /\ Len(csv.lines) = Len(history) + 1

----------------------------------------------------------------------------
(* Claims about the startup *)

\* the stages of main(), in the order of the claim
Stage(p) ==
    CASE p = "validate" -> 0
      [] p = "load" -> 1
      [] p \in {"init_csv", "find_gaps", "gap", "window", "store_unlock", "merge_unlock"} -> 2
      [] p = "start_poller" -> 3
      [] p = "exited" -> 5
      [] OTHER -> 4

\* C16: credential validation, then the history load, then the whole backfill
\* pass; the poller thread is started and requests are answered only after the
\* pass has returned; when validation fails the process exits and nothing of
\* the later steps happens.
C16_StartupOrdered ==
    [][/\ pc' # "validate" =>
            \/ Stage(pc') = Stage(pc)
            \/ Stage(pc') = Stage(pc) + 1 /\ pc # "exited" /\ pc' # "exited"
            \/ pc = "validate" /\ pc' = "exited"
       /\ ppc' # "off" => Stage(pc') = 4
       /\ snap' # Nothing => Stage(pc') = 4
       /\ Stage(pc) = 0 => UNCHANGED <<history, histfile, csv, ppc, cache, snap>>
       /\ Stage(pc) = 5 => pc' \in {"exited", "validate"}
       /\ Stage(pc) = 5 => UNCHANGED <<history, histfile, csv, ppc, cache, snap>>
       /\ (history' # history /\ ppc = "off" /\ pc' # "validate") => Stage(pc) \in {1, 2, 4}]_vars

\* A second start has gone through validation, load and a backfill pass that
\* added a sample; the poller runs and the server answers.
C16_Witness ==
    /\ pc = "serve"
    /\ ppc # "off"
    /\ restarts = 1
    /\ total_points > 0

\* the positions of a thread inside record_data_point, and those of the main
\* thread from the fetch of its startup sample to the update of the cache
RecordPositions == {"rec_lock", "rec_unlock", "rec_csv"}
StartupSamplePositions == {"m_fetch"} \cup RecordPositions \cup {"rec_cache"}

\* C30: the startup sample is fetched and recorded before the poll loop
\* begins: the poller is not inside record_data_point before the main thread
\* is through with its startup sample, and no two record_data_point calls run
\* at the same time.
C30_StartupSampleBeforeLoop ==
    /\ ppc \in RecordPositions => pc \notin StartupSamplePositions
    /\ ~(pc \in RecordPositions /\ ppc \in RecordPositions)

\* What the lock does ensure: no two threads are inside the critical section
\* of record_data_point at the same time.
Aux_C30_CriticalSectionsExclusive == ~(pc = "rec_unlock" /\ ppc = "rec_unlock")

----------------------------------------------------------------------------
(* Claims about the order and the retention of the in-memory history *)

Sorted(h) == \A i \in 1..Len(h) : \A j \in i..Len(h) : h[i].ts <= h[j].ts
Fresh(h, now) == \A i \in 1..Len(h) : now - h[i].ts <= Sec(HISTORY_MAX_AGE)

\* C1: whenever backfill_from_history completes, the in-memory history is
\* non-decreasing by timestamp, whatever snapshot was loaded and whatever gaps
\* and samples the pass worked on.
C1_SortedAfterBackfill == pc = "start_poller" => Sorted(history)

\* What the pass does establish: the order, when it synthesized a sample.
Aux_C1_SortedWhenMerged == (pc = "start_poller" /\ total_points > 0) => Sorted(history)

\* C2 as stated: after every mutation of the in-memory history (append, insertion
\* of backfill samples, startup load) every sample left is at most 7 days old.
C2_RetentionAfterMutation == [][history' # history => Fresh(history', clock')]_vars

\* C2: after a record_data_point append, after the startup load and after the
\* final sort-and-prune of backfill_from_history every sample left is at most
\* 7 days old; the per-gap insertion of backfill samples (_history.extend) prunes
\* nothing.
C2_RetentionAfterPrune ==
    [][(history' # history /\ pc # "window") => Fresh(history', clock')]_vars

\* The final prune of a pass has removed a synthesized sample.
C2_Witness == pc = "start_poller" /\ total_points > Len(history) /\ Fresh(history, clock)

\* a is b with some of its elements left out
RECURSIVE IsSubsequence(_, _)
IsSubsequence(a, b) ==
    IF a = <<>> THEN TRUE
    ELSE IF b = <<>> THEN FALSE
    ELSE IF Head(a) = Head(b) THEN IsSubsequence(Tail(a), Tail(b))
    ELSE IsSubsequence(a, Tail(b))

\* pruning h twice at the same time gives what pruning it once gives, in the
\* order of h
PrunedTwice(h, now) ==
    /\ prune_history(prune_history(h, now), now) = prune_history(h, now)
    /\ IsSubsequence(prune_history(h, now), h)

\* a step that ends with prune_history: an append, the startup load, the merge
PruneStep ==
    \/ \E t \in Threads : Moves(t, "rec_lock", "rec_unlock")
    \/ Moves("main", "load", "init_csv")
    \/ Moves("main", "gap", "merge_unlock")

\* C25: pruning is idempotent: prune_history applied twice in succession, with
\* no append in between and at the same time, leaves what one application
\* leaves, the surviving samples in their original relative order; so after
\* every step that has pruned, pruning again changes nothing.
C25_PruneIdempotent ==
    [][/\ PrunedTwice(history, clock)
       /\ PruneStep => prune_history(history', clock') = history'
       /\ PruneStep => PrunedTwice(history', clock')]_vars

\* The poller has appended a sample eight days after the first one was
\* recorded: the prune of its critical section has removed the first one and
\* kept the new one.
C25_Witness ==
    /\ ppc = "rec_unlock"
    /\ restarts = 0
    /\ Len(csv.lines) = 2
    /\ csv.lines[2].ts = 0
    /\ history = <<point["poller"]>>
    /\ history[1].ts >= Sec(8 * 24 * 3600)

\* the snapshot file holds the list h
SnapshotIs(file, h) == file.exists /\ file.valid /\ file.data = h

\* C26 as stated: whenever record_data_point or backfill_from_history has
\* returned, the content of the snapshot file equals the in-memory history.
C26_SnapshotAfterEveryReturn ==
    /\ \A t \in Threads : PcOf(t) = "rec_cache" => SnapshotIs(histfile, history)
    /\ (pc = "start_poller" /\ histfile.exists) => SnapshotIs(histfile, history)

\* C26: the snapshot file is rewritten after every append and every merge:
\* the critical section of record_data_point and the merge block of
\* backfill_from_history leave the file equal to the in-memory history, and
\* it is equal when record_data_point has returned and when a pass that
\* synthesized at least one sample has returned (no write fails in this
\* specification); a pass that synthesized none writes nothing.
C26_SnapshotAfterAppendAndMerge ==
    [][/\ \A t \in Threads :
             /\ Moves(t, "rec_lock", "rec_unlock") => SnapshotIs(histfile', history')
             /\ PcOf(t)' = "rec_cache" => SnapshotIs(histfile', history')
       /\ Moves("main", "gap", "merge_unlock") => SnapshotIs(histfile', history')
       /\ (pc' = "start_poller" /\ total_points' > 0) => SnapshotIs(histfile', history')
       /\ (pc = "gap" /\ pc' = "start_poller") => histfile' = histfile]_vars

\* A second start has merged a synthesized sample between the two recorded
\* ones that it had loaded: the file holds the three, in the order of memory.
C26_Witness ==
    /\ pc = "start_poller"
    /\ restarts = 1
    /\ total_points = 1
    /\ Len(history) = 3
    /\ SnapshotIs(histfile, history)

----------------------------------------------------------------------------
(* Claims about the order of the CSV log *)

\* the rows of the log, without its header
LogRows == SelectSeq(csv.lines, LAMBDA line : line.kind = "row")

\* C20: after a backfill merge that added samples the rows of the CSV log are
\* in ascending order of their timestamps, the synthesized rows standing
\* between the recorded rows around their gap.
C20_LogReorderedAfterMerge ==
    (pc = "start_poller" /\ total_points > 0) =>
        \A i \in 1..Len(LogRows) : \A j \in i..Len(LogRows) : LogRows[i].ts <= LogRows[j].ts

\* What holds at all times, a merge included: rows are only added at the end.
Aux_C20_AppendOnly ==
    [][/\ Len(csv'.lines) >= Len(csv.lines)
       /\ SubSeq(csv'.lines, 1, Len(csv.lines)) = csv.lines]_vars

----------------------------------------------------------------------------
(* Claims about the round trip of a sample through the CSV log *)

\* the optional numeric fields of a sample, in the order of their columns
NumericFields == <<"temp", "outdoorTemp", "heatingSetpoint", "coolingSetpoint">>

\* the row a thread has just appended to the log
RowWritten(t) == Moves(t, "rec_csv", "rec_cache") /\ csv' # csv
LastRow(file) == file.lines[Len(file.lines)]

\* C21: a sample whose optional numeric field is absent is written by
\* append_csv with an empty string in that column, and find_csv_gaps reads the
\* row back with that field absent and every present field equal to the value
\* written.
C21_AbsentFieldRoundTrip ==
    [][\A t \in Threads :
          RowWritten(t) =>
             LET f == LastRow(csv').f
             IN /\ \A k \in 1..4 : point[t][NumericFields[k]] = None => f[k] = ""
                /\ ~row_raises(f)
                /\ \A k \in 1..4 :
                      row_state(f)[NumericFields[k]] = point[t][NumericFields[k]]]_vars

\* What holds of the fields that are present: the column holds the value, and
\* float() of the column gives it back.
Aux_C21_PresentFieldRoundTrip ==
    [][\A t \in Threads :
          RowWritten(t) =>
             LET f == LastRow(csv').f
             IN \A k \in 1..4 :
                   point[t][NumericFields[k]] # None =>
                      /\ f[k] = point[t][NumericFields[k]]
                      /\ ~float_raises(f[k])
                      /\ float(f[k]) = point[t][NumericFields[k]]]_vars

----------------------------------------------------------------------------
(* Claims about backfill_gap and the age limit, checked under SpecFill.    *)

WindowStep == pc = "window" /\ pc' = "window" /\ queries' # queries

ExpectedSwitch(operatingState, before) ==
    IF operatingState = "heating" THEN "on"
    ELSE IF operatingState \in {"idle", "cooling"} THEN "off"
    ELSE before

\* C6: after a window in which at least one event was returned, outletSwitch is
\* set from operatingState (heating: on; idle or cooling: off; else unchanged);
\* after a window without events it keeps the value it had.  The sample of the
\* window carries that value.
C6_DerivedSwitch ==
    [][WindowStep =>
         /\ state'.outletSwitch =
               IF events' # <<>>
               THEN ExpectedSwitch(state'.operatingState, state.outletSwitch)
               ELSE state.outletSwitch
         /\ points' # points =>
               points'[Len(points')].outletSwitch = state'.outletSwitch]_vars

C6_Witness ==
    /\ pc = "window"
    /\ Len(queries) > 0
    /\ events = <<evHeat>>
    /\ gaps[gi].seed = SeedWarm
    /\ state.outletSwitch = "on"
    /\ points # <<>>
    /\ points[Len(points)].outletSwitch = "on"

QueriesOf(i) == {k \in 1..Len(queries) : queries[k].gap = i}

\* C7: a gap longer than 168 hours is skipped: no query is made for it, no
\* sample is synthesized inside it, and the pass goes on to the gaps after it
\* (each of them gets its queries, and the pass ends past the last gap).
C7_TooOldGapSkipped ==
    /\ \A i \in 1..Len(gaps) :
          Over168h(gaps[i]) =>
             /\ QueriesOf(i) = {}
             /\ ~(pc = "window" /\ gi = i)
             /\ \A k \in 1..Len(history) :
                   ~(gaps[i].start < history[k].ts /\ history[k].ts < gaps[i].end)
    /\ pc = "start_poller" =>
          /\ gi = Len(gaps) + 1
          /\ \A j \in 1..Len(gaps) :
                ~Over168h(gaps[j]) =>
                    Cardinality(QueriesOf(j)) = windows_of(gaps[j])

C7_Witness ==
    /\ pc = "gap"
    /\ gi = 3
    /\ Len(gaps) = 2
    /\ Over168h(gaps[1])
    /\ QueriesOf(2) # {}
    /\ history # <<>>

\* C8: every sample backfill_gap holds for a gap lies strictly inside the gap.
C8_PointsInsideGap ==
    pc = "window" =>
        \A k \in 1..Len(points) :
            gaps[gi].start < points[k].ts /\ points[k].ts < gaps[gi].end

\* the gap of one second and one tick: its only window is one tick wide
C8_Witness ==
    /\ pc = "window"
    /\ gaps[gi].end - gaps[gi].start = Sec(1) + 1
    /\ chunk_start >= gaps[gi].end
    /\ points # <<>>

\* the sample pt carries the replay state st
Carries(pt, st) ==
    /\ pt.temp = st.temp
    /\ pt.outdoorTemp = st.outdoorTemp
    /\ pt.heatingSetpoint = st.heatingSetpoint
    /\ pt.coolingSetpoint = st.coolingSetpoint
    /\ pt.operatingState = st.operatingState
    /\ pt.mode = st.mode
    /\ pt.outletSwitch = st.outletSwitch

\* ts is the middle of the window from cs to ce, to the tick
IsMidpoint(ts, cs, ce) == 2 * ts - (cs + ce) \in {-1, 0, 1}

AttributeOf ==
    [temp |-> "temperature", outdoorTemp |-> "outdoorTemperature",
     heatingSetpoint |-> "heatingSetpoint", coolingSetpoint |-> "coolingSetpoint",
     operatingState |-> "thermostatOperatingState", mode |-> "thermostatMode"]

\* the events of evs for a field, and the one of them that is applied last:
\* the greatest epoch, and among equal epochs the one that arrived last
EventsFor(evs, field) == {i \in 1..Len(evs) : evs[i].attribute = AttributeOf[field]}
AppliedLast(evs, field) ==
    CHOOSE i \in EventsFor(evs, field) :
        \A j \in EventsFor(evs, field) :
            evs[j].epoch < evs[i].epoch \/ (evs[j].epoch = evs[i].epoch /\ j <= i)

\* the value of a field after the events evs, old being its value before them
AfterEvents(old, evs, field) ==
    IF EventsFor(evs, field) = {} THEN old ELSE evs[AppliedLast(evs, field)].value

\* the window just worked on has applied its events to the six mapped fields
MappedFieldsReplayed ==
    \A field \in DOMAIN AttributeOf :
        state'[field] = AfterEvents(state[field], events', field)

\* the state a gap's replay starts from
SeedOrDefault(gap) ==
    IF gap.seed = Nothing
    THEN State(None, None, None, None, "idle", "heat", "off")
    ELSE gap.seed[1]

\* C28 as stated: the replay state after a window is the state before it with
\* the window's events applied, each event overwriting only its one mapped
\* attribute.
C28_ReplayIsEventsOnly ==
    [][/\ (pc = "gap" /\ pc' = "window") => state' = SeedOrDefault(gaps[gi])
       /\ WindowStep =>
             /\ MappedFieldsReplayed
             /\ state'.outletSwitch = state.outletSwitch]_vars

\* C28: the replay starts from the seed state, or from the default state when
\* there is no seed; a window applies its events in ascending epoch order,
\* ties in arrival order, each event overwriting its one mapped attribute and
\* an unmapped one nothing, and then, when it had at least one event, sets
\* outletSwitch from operatingState; a window with no events leaves the whole
\* state as the window before left it.
C28_ReplayCarriesState ==
    [][/\ (pc = "gap" /\ pc' = "window") => state' = SeedOrDefault(gaps[gi])
       /\ WindowStep =>
             /\ MappedFieldsReplayed
             /\ state'.outletSwitch =
                   IF events' = <<>> THEN state.outletSwitch
                   ELSE ExpectedSwitch(state'.operatingState, state.outletSwitch)
             /\ events' = <<>> => state' = state
       /\ (pc = "window" /\ ~WindowStep) => state' = state]_vars

\* The third window of a gap: its two temperature events have the same epoch
\* and the later arrival has won; the operating state is the one the first
\* window's events left, and the setpoint is still the seed's.
C28_Witness ==
    /\ pc = "window"
    /\ Len(queries) = 3
    /\ events = <<evTemp70, evTemp55>>
    /\ state.temp = "55"
    /\ state.operatingState = "heating"
    /\ state.outletSwitch = "on"
    /\ gaps[gi].seed = SeedWarm
    /\ state.heatingSetpoint = "68"

\* ceil((gap_end - gap_start - 1s) / 1h)
WindowCount(gap) ==
    LET d == gap.end - gap.start - Sec(1)
    IN IF d <= 0 THEN 0 ELSE (d + Hours(1) - 1) \div Hours(1)

\* the query made last
LastQuery(qs) == qs[Len(qs)]

\* C29: the windows of a gap start one second after gap_start, each starts
\* where the one before ended and is exactly 1 hour wide, except a last one
\* cut at gap_end; each window gets exactly one event query, the window start
\* strictly increases, and the loop ends after
\* ceil((gap_end - gap_start - 1s) / 1h) windows, at gap_end.
C29_WindowsPartitionGap ==
    [][/\ (pc = "gap" /\ pc' = "window") =>
             /\ chunk_start' = gaps[gi].start + Sec(1)
             /\ queries' = queries
       /\ WindowStep =>
             /\ chunk_start' > chunk_start
             /\ chunk_start' <= gaps[gi].end
             /\ \/ chunk_start' - chunk_start = Hours(1)
                \/ chunk_start' = gaps[gi].end /\ chunk_start' - chunk_start < Hours(1)
             /\ Len(queries') = Len(queries) + 1
             /\ LastQuery(queries').gap = gi
             /\ LastQuery(queries').after = chunk_start \div TPS
             /\ LastQuery(queries').before = chunk_start' \div TPS
       /\ (pc = "window" /\ pc' = "window") => WindowStep
       /\ pc = "window" =>
             /\ Cardinality(QueriesOf(gi)) <= WindowCount(gaps[gi])
             /\ Cardinality(QueriesOf(gi)) = WindowCount(gaps[gi]) <=>
                   chunk_start >= gaps[gi].end
       /\ (pc = "window" /\ pc' \in {"gap", "store_unlock"}) =>
             /\ Cardinality(QueriesOf(gi)) = WindowCount(gaps[gi])
             /\ chunk_start = gaps[gi].end]_vars

\* A gap of two hours and thirty seconds has got its three windows: two of
\* one hour and a last one of 29 seconds, which ends at the end of the gap.
C29_Witness ==
    /\ pc = "window"
    /\ gaps[gi].end - gaps[gi].start = Hours(2) + Sec(30)
    /\ Len(queries) = 3
    /\ queries[2].before - queries[2].after = 3600
    /\ queries[3].before - queries[3].after = 29
    /\ queries[3].after = queries[2].before
    /\ chunk_start = gaps[gi].end

\* the query of the window just worked on has failed
QueryFailed ==
    /\ pc = "window"
    /\ queries' # queries
    /\ queries'[Len(queries')].run \in {"no cli", "exit", "timeout", "bad json"}

\* C24: a failed event query for a window (CLI missing, non-zero exit code,
\* timeout, output that is not JSON) counts as zero events: backfill_gap goes
\* on to the next window with the replay state unchanged, every window of the
\* gap is queried whatever failed before it, and no failure leaves backfill_gap.
C24_FailedQueryIsNoEvents ==
    [][/\ pc' # "crashed"
       /\ QueryFailed =>
             /\ pc' = "window"
             /\ events' = <<>>
             /\ state' = state
             /\ chunk_start' > chunk_start
             /\ UNCHANGED <<gi, gaps, history, csv>>
       /\ (pc = "window" /\ pc' \in {"gap", "store_unlock"}) =>
             Cardinality(QueriesOf(gi)) = windows_of(gaps[gi])]_vars

\* A gap of three windows: the queries of the first two have failed, the third
\* has returned events, and each window has given its sample.
C24_Witness ==
    /\ pc = "window"
    /\ Len(queries) = 3
    /\ queries[1].run = "timeout"
    /\ queries[2].run = "bad json"
    /\ queries[3].run = "ok"
    /\ events # <<>>
    /\ Len(points) = 3
    /\ points[2].temp = gaps[gi].seed[1].temp
    /\ chunk_start >= gaps[gi].end

----------------------------------------------------------------------------
(* What the claims about find_csv_gaps say, stated on the log itself.      *)

\* A record of the log: a row with 8 fields, a timestamp and numbers that parse.
IsRecord(line) == line.kind = "row" /\ ~row_raises(line.f)
\* A malformed row: too few fields, a bad timestamp, or a number that does not parse.
IsMalformed(line) ==
    line.kind \in {"short", "badts"} \/ (line.kind = "row" /\ row_raises(line.f))
Records(file) == SelectSeq(file.lines, IsRecord)
WithoutMalformed(file) ==
    [file EXCEPT !.lines = SelectSeq(@, LAMBDA l : ~IsMalformed(l))]

Span(g) == <<g.start, g.end>>
Spans(gs) == [i \in 1..Len(gs) |-> Span(gs[i])]

RECURSIVE ExpectedBetween(_, _, _)
ExpectedBetween(recs, i, min) ==
    IF i >= Len(recs) THEN <<>>
    ELSE (IF Sec(recs[i + 1].ts) - Sec(recs[i].ts) > Sec(min)
          THEN << <<Sec(recs[i].ts), Sec(recs[i + 1].ts)>> >> ELSE <<>>)
         \o ExpectedBetween(recs, i + 1, min)

\* The gaps of a result that are not the trailing one (now is later than every row).
BetweenPart(gs, now) == SelectSeq(Spans(gs), LAMBDA sp : sp[2] # now)
TrailingPart(gs, now) == SelectSeq(Spans(gs), LAMBDA sp : sp[2] = now)

\* C3: find_csv_gaps emits a gap between two consecutive records exactly when
\* the later timestamp minus the earlier one exceeds min_gap_seconds (so the log
\* [T, T+60, T+300] gives the one gap (T+60, T+300) for 120 and none for 300).
C3_GapBetweenRecords ==
    pc = "scanned" =>
        BetweenPart(gaps, clock) = ExpectedBetween(Records(csv), 1, min_gap_seconds)

\* C4: find_csv_gaps emits one trailing gap, from the last record of the log to
\* now, exactly when the log has a record and that record is more than
\* min_gap_seconds older than now.
C4_TrailingGap ==
    pc = "scanned" =>
        LET recs == Records(csv)
            last == Sec(recs[Len(recs)].ts)
        IN TrailingPart(gaps, clock) =
              IF recs # <<>> /\ clock - last > Sec(min_gap_seconds)
              THEN << <<last, clock>> >> ELSE <<>>

\* C5: a malformed row is skipped without aborting the scan: the gaps reported
\* are those of the log with the malformed rows removed.
C5_MalformedSkipped ==
    pc = "scanned" =>
        gaps = find_csv_gaps(WithoutMalformed(csv), min_gap_seconds, clock)

\* The same three statements on logs none of whose rows holds a text float() rejects.
NoBadNumber == \A i \in 1..Len(csv.lines) :
    csv.lines[i].kind = "row" => ~row_raises(csv.lines[i].f)
Aux_C3_NoBadNumber == NoBadNumber => C3_GapBetweenRecords
Aux_C4_NoBadNumber == NoBadNumber => C4_TrailingGap
Aux_C5_NoBadNumber == NoBadNumber => C5_MalformedSkipped

----------------------------------------------------------------------------
(* Claims about the order of the appends of record_data_point *)

\* the places of a row in the log
PlacesOf(row) == {a \in 1..Len(LogRows) : LogRows[a] = row}

\* C32: append order matches call order in both stores: of any two samples
\* of record_data_point calls, concurrent ones included, the one created first
\* comes first in the in-memory history, and the rows of two samples stand in
\* the CSV log in the same relative order as the samples in the history.
C32_AppendOrderIsCallOrder ==
    \A i \in 1..Len(history) : \A j \in (i + 1)..Len(history) :
        /\ history[i].ts <= history[j].ts
        /\ csv_row(history[i]) # csv_row(history[j]) =>
              \A a \in PlacesOf(csv_row(history[i])) :
                 \A b \in PlacesOf(csv_row(history[j])) : a < b

\* What the lock does ensure: a sample is added at the end of the history by
\* the thread that holds the lock, and nothing else changes the history.
Aux_C32_AppendsSerialized ==
    [][history' # history =>
          \E t \in Threads :
             /\ lock = "free" /\ lock' = t
             /\ history' = record_locked(history, point[t], clock)]_vars

----------------------------------------------------------------------------
(* Claims about the status cache *)

\* C34: the fetch time of the cache entry never decreases: however the cache
\* update of the poller and a get_status_cached call that misses and fetches
\* interleave, the timestamp of the entry left in the cache is not earlier
\* than the timestamp of the entry it replaced.
C34_CacheTimeNeverDecreases == [][cache'.ts >= cache.ts]_vars

\* What get_status_cached does: the entry it stores carries the time read at
\* the start of the call, before the fetch.
Aux_C34_StampIsCallStart ==
    [][(pc = "g_fetch" /\ pc' = "serve") => (cache'.ts = rnow /\ rnow <= clock)]_vars

\* the entry of the cache was stored by a poller cycle or by the startup sample
CachedByPoller == cache.data # Nothing /\ (prev = Nothing \/ prev[1].polled)

\* C35: an error result is never served from the cache: a get_status_cached
\* call that answers from the cache returns a result without the error key,
\* and a failed fetch of get_status_cached does not replace an error-free
\* sample that the poller cached.
C35_ErrorNeverFromCache ==
    [][/\ (pc = "g_hit" /\ pc' = "serve") => ~cache.data[1].error
       /\ (pc = "g_fetch" /\ pc' = "serve" /\ CachedByPoller /\ ~cache.data[1].error)
             => ~cache'.data[1].error]_vars

\* What holds of the poller: the status it stores in the cache has no error key.
Aux_C35_PollerCachesNoError ==
    \A t \in Threads : PcOf(t) = "rec_cache" => ~status[t].error

----------------------------------------------------------------------------
(* Specification SpecRepair: the start of the process on a log with gaps,  *)
(* up to the end of backfill_from_history, and the same start again on the *)
(* log the pass has left.  No sample is taken, the clock stands still, and *)
(* the event history gives the same answer to every window.                *)

\* a row as record_data_point writes it, every field present
RepairRow(t) == Row(t, <<"70", "55", "68", "70", "idle", "heat", "off">>)

\* the logs and the time of the start
RepairCases ==
    { [lines |-> <<HeaderLine, RepairRow(0), RepairRow(300)>>, now |-> Sec(301)],
      [lines |-> <<HeaderLine, RepairRow(0), RepairRow(300)>>, now |-> Sec(600)],
      [lines |-> <<HeaderLine, RepairRow(0), RepairRow(60), RepairRow(300)>>, now |-> Sec(360)],
      [lines |-> <<HeaderLine, RepairRow(0), RepairRow(60)>>, now |-> Sec(120)],
      [lines |-> <<HeaderLine, RepairRow(0), RepairRow(169 * 3600)>>, now |-> Hours(169) + Sec(300)] }

\* the event history holds no event
RepairResponses == {<<>>}

RInit ==
    /\ \E c \in RepairCases :
          /\ clock = c.now
          /\ csv = [exists |-> TRUE, lines |-> c.lines]
    /\ min_gap_seconds = 0
    /\ gaps = <<>>
    /\ pc = "validate"
    /\ history = <<>>
    /\ histfile = NoHistFile
    /\ PassIdle
    /\ NotRunning
    /\ nticks = 0
    /\ restarts = 0
    /\ ExtIdle

RNext ==
    \/ Validate({TRUE})
    \/ LoadHistory
    \/ InitCsv
    \/ FindGaps
    \/ BackfillSkipGap
    \/ BackfillEnterGap
    \/ BackfillWindow(OkRuns(RepairResponses))
    \/ BackfillStore({TRUE})
    \/ BackfillMerge({"written"})
    \/ BackfillUnlock
    \/ Restart

SpecRepair == RInit /\ [][RNext]_vars

----------------------------------------------------------------------------
(* Claims about a second backfill pass *)

\* an earlier pass of this installation has filled gaps and finished: the
\* snapshot file, which only its merge writes here, holds what it synthesized
Refilling == restarts > 0 /\ histfile.exists

\* the gap overlaps a region already filled: a sample synthesized by the
\* earlier pass stands in it
InFilledRegion(gap) ==
    \E i \in 1..Len(histfile.data) :
       LET at == strptime(strftime(histfile.data[i].ts))
       IN gap.start <= at /\ at <= gap.end

NoGapInFilledRegion(gs) == \A k \in 1..Len(gs) : ~InFilledRegion(gs[k])

\* C33: the repair pass is idempotent: when backfill_from_history has filled
\* the gaps of a log, gap detection and backfill run again on the log it left,
\* with no new sample and the same event history, detect no gap in a region
\* already filled and add no sample to the CSV log or to the in-memory history.
C33_RepairIdempotent ==
    [][Refilling =>
          /\ pc = "find_gaps" => NoGapInFilledRegion(gaps')
          /\ pc = "window" => (csv' = csv /\ history' = history)]_vars

\* What holds of the first pass on these logs: a gap it is given holds no row
\* of the log.
Aux_C33_FirstPassGapsEmpty ==
    restarts = 0 /\ pc \in {"gap", "window"} =>
        \A k \in gi..Len(gaps) : \A i \in 1..Len(LogRows) :
            ~(gaps[k].start < Sec(LogRows[i].ts) /\ Sec(LogRows[i].ts) < gaps[k].end)

----------------------------------------------------------------------------
(* Exceptions raised inside the critical sections.  What is found there is *)
(* a list operation that allocates: _history.append, the list built by     *)
(* prune_history, _history.sort.  save_history swallows what it raises.    *)

CriticalFailure == "MemoryError"

\* Variant: acquire() and release() without try/finally, so that an
\* exception leaves the critical section with the lock held.
RecordRaise_leaving(t) ==
    /\ PcOf(t) = "rec_lock"
    /\ lock = "free"
    /\ lock' = t
    /\ \E appended \in {FALSE} \cup (IF Len(history) <= MaxLog THEN {TRUE} ELSE {}) :
          history' = IF appended THEN Append(history, point[t]) ELSE history
    /\ Goto(t, "rec_except")
    /\ UNCHANGED <<clock, csv, min_gap_seconds, gaps, histfile, passVars,
                   status, point, cache, wake, restarts, nticks, reqVars>>
    /\ UNCHANGED <<snap, api>>

\* with _history_lock: _history.append(point) raises, or prune_history()
\* raises after the append; the lock is released by Unlock
RecordRaise(t) ==
    /\ PcOf(t) = "rec_lock"
    /\ lock = "free"
    /\ lock' = t
    /\ \E appended \in {FALSE} \cup (IF Len(history) <= MaxLog THEN {TRUE} ELSE {}) :
          history' = IF appended THEN Append(history, point[t]) ELSE history
    /\ Goto(t, "rec_raised")
    /\ UNCHANGED <<clock, csv, min_gap_seconds, gaps, histfile, passVars,
                   status, point, cache, wake, restarts, nticks, reqVars>>
    /\ UNCHANGED <<snap, api>>

\* Variant: the try statement stands around the loop, so that an exception
\* ends the poller; in start_poller it leaves main.
after_except_ends(t) ==
    Goto(t, IF t = "main" THEN "crashed" ELSE "ended") /\ UNCHANGED wake

\* except Exception: pass -- then time.sleep(POLL_INTERVAL) in poll_loop, the
\* return in start_poller
after_except(t) ==
    IF except_Exception(CriticalFailure) THEN AfterSample(t) ELSE after_except_ends(t)

\* the except clause around a cycle of poll_loop and around the startup sample
SampleExcept(t) ==
    /\ PcOf(t) = "rec_except"
    /\ after_except(t)
    /\ status' = [status EXCEPT ![t] = NoStatus]
    /\ point' = [point EXCEPT ![t] = NoPoint]
    /\ UNCHANGED <<clock, csv, min_gap_seconds, gaps, storeVars, passVars,
                   cache, restarts, nticks, reqVars>>
    /\ UNCHANGED extVars

\* the merge block of backfill_from_history when _history.sort raises, or
\* prune_history() after the sort; the lock is released by BackfillUnlock
BackfillMergeRaise ==
    /\ pc = "gap"
    /\ gi > Len(gaps)
    /\ total_points > 0
    /\ lock = "free"
    /\ lock' = "main"
    /\ \E sorted \in BOOLEAN :
          history' = IF sorted THEN sort_history(history) ELSE history
    /\ pc' = "merge_raised"
    /\ UNCHANGED <<clock, csv, min_gap_seconds, gaps, histfile, passVars>>
    /\ UNCHANGED <<runVars, nticks, reqVars>>
    /\ UNCHANGED <<snap, api>>

----------------------------------------------------------------------------
(* Specification SpecLive: a start on a log whose one row is older than    *)
(* BACKFILL_MIN_GAP, the poller and the requests for the history that      *)
(* follow, with exceptions inside the critical sections; every thread      *)
(* that can take a step takes one in the end, a thread that waits for the  *)
(* lock gets it when the lock is free again and again, and time passes.    *)

LiveRow == Row(0, <<"70", "55", "68", "70", "idle", "heat", "off">>)
LiveStart == Sec(301)
LivePrimaries == {DevBare, Nothing}
LiveOutlets == {Some("on")}
LiveResponses == {<<>>}
LiveSteps == {Sec(POLL_INTERVAL)}

LInit ==
    /\ clock = LiveStart
    /\ csv = [exists |-> TRUE, lines |-> <<HeaderLine, LiveRow>>]
    /\ min_gap_seconds = 0
    /\ gaps = <<>>
    /\ pc = "load"
    /\ history = <<>>
    /\ histfile = [exists |-> TRUE, valid |-> TRUE,
                   data |-> <<Point(0, row_state(LiveRow.f))>>]
    /\ PassIdle
    /\ NotRunning
    /\ nticks = 0
    /\ restarts = 0
    /\ ExtIdle

\* the steps of the main thread but its waiting for the lock and the requests
MainStep ==
    \/ LoadHistory
    \/ InitCsv
    \/ FindGaps
    \/ BackfillEnterGap
    \/ BackfillWindow(OkRuns(LiveResponses))
    \/ BackfillStore({TRUE, FALSE})
    \/ BackfillMerge({"written"})
    \/ BackfillMergeRaise
    \/ BackfillUnlock
    \/ StartPoller
    \/ Sample("main", LivePrimaries, LiveOutlets)
    \/ Unlock("main")
    \/ RecordCsv("main", {TRUE})
    \/ CacheUpdate("main")
    \/ SampleExcept("main")
    \/ SendHistory

\* the steps of the poller thread but its waiting for the lock
PollerStep ==
    \/ Sample("poller", LivePrimaries, LiveOutlets)
    \/ Unlock("poller")
    \/ RecordCsv("poller", {TRUE})
    \/ CacheUpdate("poller")
    \/ SampleExcept("poller")
    \/ PollerWake

\* with _history_lock of record_data_point: the lock is taken
Acquire(t) == RecordLocked(t, {"written"}) \/ RecordRaise(t)

LNext ==
    \/ MainStep
    \/ PollerStep
    \/ \E t \in Threads : Acquire(t)
    \/ GetHistory
    \/ Tick(LiveSteps, {})

LFair ==
    /\ WF_vars(MainStep)
    /\ WF_vars(PollerStep)
    /\ \A t \in Threads : SF_vars(Acquire(t))
    /\ WF_vars(Tick(LiveSteps, {}))

SpecLive == LInit /\ [][LNext]_vars /\ LFair

----------------------------------------------------------------------------
(* Claims about the poll loop and the history lock that say what happens   *)
(* in the end                                                              *)

\* the poller is inside a cycle of poll_loop, and it waits in time.sleep
CycleRunning ==
    ppc \in {"fetch", "rec_lock", "rec_unlock", "rec_raised", "rec_csv", "rec_cache",
             "rec_except"}
PollerIdle == ppc = "sleep"

CriticalPositions == LockedPositions \cup {"rec_raised", "merge_raised"}

====
